---- MODULE Spec2Model ----
(***************************************************************************)
(* A model of guppy's release pipeline: the binary applier, the archive    *)
(* applier, the HTTP and GitHub repositories (release lookup and download),*)
(* the update command, and the functions of the version and checksum       *)
(* packages.  Every component is its own state machine over its own        *)
(* variables; a specification runs one component and leaves the variables  *)
(* of the others at their parked values.                                   *)
(*                                                                         *)
(* Strings whose characters matter (paths, version strings, checksums) are *)
(* sequences of one-character strings, so that cleaning, joining,          *)
(* splitting and prefix tests are computed character by character as the   *)
(* Go library computes them.                                               *)
(***************************************************************************)
EXTENDS Integers, Sequences, FiniteSets, TLC

VARIABLES
  \* ---- BinaryApplier.Apply(source, target) ----
  binPc,            \* position inside Apply
  binSource,        \* the file system object at the path source
  binTarget,        \* the file system object at the path target
  binTempTarget,    \* the file system object at the path target + ".tmp"
  binCopyErr,       \* err of io.Copy, kept until it is tested
  binErr,           \* the value Apply returned ("none" while it runs)
  binTargetBefore,  \* history: binTarget when Apply was called
  binTempCreated,   \* history: os.OpenFile(tempTarget) has succeeded
  \* ---- ArchiveApplier.Apply(source, target) ----
  arcPc,            \* position inside Apply / extractZip / extractTarGz
  arcExtractPath,   \* the field ArchiveApplier.ExtractPath ("" when unset)
  arcTarget,        \* the argument target
  arcSuffix,        \* the suffix of the argument source
  arcArchive,       \* the entries stored in the archive, in order
  arcBad,           \* where the archive stream is damaged, if anywhere
  arcDest,          \* extractPath, once Apply has determined it
  arcI,             \* index of the entry the loop handles next
  arcFS,            \* the file system: clean path -> directory or file
  arcErr,           \* the value Apply returned ("none" while it runs)
  arcFS0,           \* history: arcFS when Apply was called
  arcWrites,        \* history: every object Apply created or wrote, by entry
  arcFailedAt,      \* history: the entry at which Apply returned an error
  arcRun,           \* how many times Apply has been called on this root
  \* ---- HTTPRepository.GetLatestRelease() ----
  hlPc,             \* position inside GetLatestRelease
  hlFetchErr,       \* whether fetchReleases fails
  hlReleases,       \* the manifest fetchReleases decodes
  hlI,              \* the loop index i
  hlLatest,         \* latestRelease, as an index into releases (0: nil)
  hlErr,            \* the error returned ("none" while it runs)
  hlResult,         \* the release returned
  hlCall,           \* the method called, with its argument
  \* ---- HTTPRepository.Download(release, dest) ----
  dlPc,             \* position inside Download
  dlRelease,        \* the argument release
  dlResponse,       \* what the server answers
  dlDir,            \* the state of filepath.Dir(dest)
  dlDest,           \* the file system object at dest
  dlErr,            \* the error returned ("none" while it runs)
  dlWrote,          \* history: os.Create(dest) has succeeded
  \* ---- the update command ----
  upPc,             \* position inside the command
  upCfg,            \* cfg: CurrentVersion and Applier
  upSaved,          \* current_version in the configuration file
  upLatest,         \* latest, once GetLatestRelease has returned it
  upFile,           \* the file system object at downloadPath
  upCalls,          \* history: the stages called, each with its success
  upErr,            \* the error returned ("none" while it runs)
  upCfg0,           \* history: cfg when the command started
  \* ---- GitHubRepository.GetLatestRelease() / GetRelease(version) ----
  ghPc,             \* position inside the method
  ghCfg,            \* the fields Owner, Repo, Token and AssetName
  ghCall,           \* the method called, with its argument
  ghResponse,       \* what the API answers
  ghURL,            \* the URL requested
  ghErr,            \* the error returned ("none" while it runs)
  ghResult,         \* the release returned
  \* ---- one function called on its own ----
  fnPc,             \* "call" before the call, "done" after it
  fnCall,           \* the function and its arguments
  fnResult,         \* what it returned
  \* ---- GitHubRepository.Download(release, dest) ----
  gdPc,             \* position inside Download
  gdToken,          \* the field Token
  gdRelease,        \* the argument release
  gdResponse,       \* what the server answers
  gdDir,            \* the state of filepath.Dir(dest)
  gdDest,           \* the file system object at dest
  gdDest0,          \* history: gdDest when Download was called
  gdSent,           \* the request handed to httpClient.Do
  gdErr             \* the error returned ("none" while it runs)

binVars == <<binPc, binSource, binTarget, binTempTarget, binCopyErr, binErr,
             binTargetBefore, binTempCreated>>

arcVars == <<arcPc, arcExtractPath, arcTarget, arcSuffix, arcArchive, arcBad,
             arcDest, arcI, arcFS, arcErr, arcFS0, arcWrites, arcFailedAt,
             arcRun>>

hlVars == <<hlPc, hlFetchErr, hlReleases, hlI, hlLatest, hlErr, hlResult,
            hlCall>>

dlVars == <<dlPc, dlRelease, dlResponse, dlDir, dlDest, dlErr, dlWrote>>

upVars == <<upPc, upCfg, upSaved, upLatest, upFile, upCalls, upErr, upCfg0>>

ghVars == <<ghPc, ghCfg, ghCall, ghResponse, ghURL, ghErr, ghResult>>

fnVars == <<fnPc, fnCall, fnResult>>

gdVars == <<gdPc, gdToken, gdRelease, gdResponse, gdDir, gdDest, gdDest0, gdSent,
            gdErr>>

(***************************************************************************)
(* Bounds of the model.                                                    *)
(***************************************************************************)
MaxByte == 2        \* file contents are sequences over 1..MaxByte
MaxContentLen == 2  \* of at most this length
MaxEntries == 2     \* an archive holds at most this many entries
MaxReleases == 3    \* a manifest holds at most this many releases
MaxAssets == 2      \* a GitHub release holds at most this many assets
MaxRuns == 2        \* Apply is called at most this often on one root
MaxSuffixLen == 3   \* what follows the numbers of a version string is at most this long

(***************************************************************************)
(* Generic helpers.                                                        *)
(***************************************************************************)
SeqsUpTo(S, n) == UNION {[1..k -> S] : k \in 0..n}

Prefix(s, n) == SubSeq(s, 1, n)

HasPrefix(s, p) == Len(p) <= Len(s) /\ SubSeq(s, 1, Len(p)) = p

(***************************************************************************)
(* File system objects at one path.                                        *)
(***************************************************************************)
ModeExec == 493     \* 0755
Mode0644 == 420     \* 0644
Mode0750 == 488     \* 0750

Absent == [kind |-> "absent"]
Directory == [kind |-> "dir"]
Unreadable == [kind |-> "unreadable"]
File(c, m) == [kind |-> "file", content |-> c, mode |-> m]

Contents == SeqsUpTo(1..MaxByte, MaxContentLen)

(***************************************************************************)
(* BinaryApplier.Apply.  The three paths source, target and target+".tmp"  *)
(* are distinct paths of one file system; no other process touches them    *)
(* while Apply runs.                                                       *)
(***************************************************************************)
BinSources ==
  {Absent, Directory, Unreadable} \cup
  {File(c, m) : c \in Contents, m \in {Mode0644, Mode0750}}

BinTargets == {Absent} \cup {File(c, Mode0644) : c \in Contents}

BinTemps == {Absent, File(<<1>>, Mode0644)}

BinInit ==
  /\ binPc = "open"
  /\ binSource \in BinSources
  /\ binTarget \in BinTargets
  /\ binTempTarget \in BinTemps
  /\ binCopyErr = FALSE
  /\ binErr = "none"
  /\ binTargetBefore = binTarget
  /\ binTempCreated = FALSE

BinPark ==
  /\ binPc = "parked"
  /\ binSource = Absent
  /\ binTarget = Absent
  /\ binTempTarget = Absent
  /\ binCopyErr = FALSE
  /\ binErr = "none"
  /\ binTargetBefore = Absent
  /\ binTempCreated = FALSE

BinReturn(e) == binPc' = "done" /\ binErr' = e

\* os.Open(source) and sourceFile.Stat(): a missing or unreadable source fails,
\* a directory opens.
BinOpenSource ==
  /\ binPc = "open"
  /\ IF binSource.kind \in {"absent", "unreadable"}
       THEN BinReturn("error opening source file")
       ELSE binPc' = "create" /\ binErr' = binErr
  /\ UNCHANGED <<binSource, binTarget, binTempTarget, binCopyErr,
                 binTargetBefore, binTempCreated>>

\* sourceInfo.Mode(): the permission bits os.OpenFile uses.
SourceMode(src) == IF src.kind = "file" THEN src.mode ELSE ModeExec

\* os.OpenFile(tempTarget, O_WRONLY|O_CREATE|O_TRUNC, mode): a new file gets
\* the mode, an existing file is truncated and keeps its own mode.
OpenTrunc(f, mode) ==
  IF f.kind = "file" THEN File(<<>>, f.mode) ELSE File(<<>>, mode)

BinCreateTemp ==
  /\ binPc = "create"
  /\ \E ok \in BOOLEAN :
       IF ok
         THEN /\ binTempTarget' = OpenTrunc(binTempTarget, SourceMode(binSource))
              /\ binTempCreated' = TRUE
              /\ binPc' = "copy"
              /\ binErr' = binErr
         ELSE /\ BinReturn("error creating temporary target file")
              /\ UNCHANGED <<binTempTarget, binTempCreated>>
  /\ UNCHANGED <<binSource, binTarget, binCopyErr, binTargetBefore>>

\* io.Copy(targetFile, sourceFile); targetFile.Close().  Reading a directory
\* fails at once; a copy that fails has written a prefix of the source.
BinCopy ==
  /\ binPc = "copy"
  /\ IF binSource.kind = "dir"
       THEN binCopyErr' = TRUE /\ binTempTarget' = binTempTarget
       ELSE \E n \in 0..Len(binSource.content) : \E failed \in BOOLEAN :
              /\ (n < Len(binSource.content) => failed)
              /\ binCopyErr' = failed
              /\ binTempTarget' =
                   [binTempTarget EXCEPT !.content = Prefix(binSource.content, n)]
  /\ binPc' = "copied"
  /\ UNCHANGED <<binSource, binTarget, binErr, binTargetBefore, binTempCreated>>

\* if err != nil { os.Remove(tempTarget); return error }
BinCopyCheck ==
  /\ binPc = "copied"
  /\ IF binCopyErr
       THEN /\ binTempTarget' = Absent
            /\ BinReturn("error copying file")
       ELSE /\ binPc' = "remove"
            /\ UNCHANGED <<binTempTarget, binErr>>
  /\ UNCHANGED <<binSource, binTarget, binCopyErr, binTargetBefore, binTempCreated>>

\* if os.Stat(target) == nil { os.Remove(target) }; a failed Remove removes the
\* temp file and returns.
BinRemoveOld ==
  /\ binPc = "remove"
  /\ IF binTarget.kind = "absent"
       THEN /\ binPc' = "rename"
            /\ UNCHANGED <<binTarget, binTempTarget, binErr>>
       ELSE \E ok \in BOOLEAN :
              IF ok
                THEN /\ binTarget' = Absent
                     /\ binPc' = "rename"
                     /\ UNCHANGED <<binTempTarget, binErr>>
                ELSE /\ binTempTarget' = Absent
                     /\ BinReturn("error removing old target")
                     /\ binTarget' = binTarget
  /\ UNCHANGED <<binSource, binCopyErr, binTargetBefore, binTempCreated>>

\* os.Rename(tempTarget, target); a failed rename returns without touching
\* the temp file.
BinRename ==
  /\ binPc = "rename"
  /\ \E ok \in BOOLEAN :
       IF ok
         THEN /\ binTarget' = binTempTarget
              /\ binTempTarget' = Absent
              /\ binPc' = "chmod"
              /\ binErr' = binErr
         ELSE /\ BinReturn("error renaming temporary file")
              /\ UNCHANGED <<binTarget, binTempTarget>>
  /\ UNCHANGED <<binSource, binCopyErr, binTargetBefore, binTempCreated>>

\* os.Chmod(target, 0755)
ChmodKeepsMode(f) == f

ChmodExec(f) == [f EXCEPT !.mode = ModeExec]

BinChmod ==
  /\ binPc = "chmod"
  /\ \E ok \in BOOLEAN :
       IF ok
         THEN /\ binTarget' = ChmodExec(binTarget)
              /\ BinReturn("nil")
         ELSE /\ BinReturn("error setting executable permissions")
              /\ binTarget' = binTarget
  /\ UNCHANGED <<binSource, binTempTarget, binCopyErr, binTargetBefore,
                 binTempCreated>>


(***************************************************************************)
(* Claims about BinaryApplier.Apply (checked under SpecBinary).            *)
(***************************************************************************)
BinReturnedError == binPc = "done" /\ binErr # "nil"

\* C2: if Apply returns an error, a target file that existed before the call
\* still exists afterwards with its prior content unchanged.
C2_ErrorLeavesTargetUnchanged ==
  (BinReturnedError /\ binTargetBefore.kind = "file") =>
     /\ binTarget.kind = "file"
     /\ binTarget.content = binTargetBefore.content

\* C3: at every intermediate state of Apply on a pre-existing target, the
\* target path holds the complete old content or the complete new content; it
\* is never absent and never partially written.
C3_TargetAlwaysOldOrNew ==
  (binPc # "parked" /\ binTargetBefore.kind = "file") =>
     /\ binTarget.kind = "file"
     /\ \/ binTarget.content = binTargetBefore.content
        \/ binSource.kind = "file" /\ binTarget.content = binSource.content

\* C4: after Apply returns nil for a regular-file source, whether or not the
\* target existed before, the target holds exactly the source's content, its
\* mode is 0755 whatever the source's mode, and target+".tmp" does not exist.
C4_SuccessInstallsSource ==
  (binPc = "done" /\ binErr = "nil" /\ binSource.kind = "file") =>
     /\ binTarget.kind = "file"
     /\ binTarget.content = binSource.content
     /\ binTarget.mode = ModeExec
     /\ binTempTarget = Absent

C4_Witness ==
  /\ binPc = "done" /\ binErr = "nil"
  /\ binSource.kind = "file" /\ binSource.mode # ModeExec
  /\ binTargetBefore.kind = "file"
  /\ binTargetBefore.content # binSource.content

\* C5: whenever Apply returns an error after it has created target+".tmp"
\* (copy failure, failure removing the old target, or rename failure), the
\* temp file does not exist when Apply returns.
C5_ErrorRemovesTemp ==
  (BinReturnedError /\ binTempCreated) => binTempTarget = Absent

(***************************************************************************)
(* path/filepath on Unix, on strings as sequences of characters.           *)
(***************************************************************************)
Sep == "/"

\* The index of the first / last occurrence of c in s, 0 when there is none.
IndexOf(s, c) ==
  IF \E i \in 1..Len(s) : s[i] = c
    THEN CHOOSE i \in 1..Len(s) : s[i] = c /\ \A j \in 1..(i - 1) : s[j] # c
    ELSE 0

LastIndexOf(s, c) ==
  IF \E i \in 1..Len(s) : s[i] = c
    THEN CHOOSE i \in 1..Len(s) : s[i] = c /\ \A j \in (i + 1)..Len(s) : s[j] # c
    ELSE 0

\* strings.Split(s, c)
RECURSIVE Split(_, _)
Split(s, c) ==
  LET i == IndexOf(s, c) IN
    IF i = 0 THEN <<s>>
    ELSE <<SubSeq(s, 1, i - 1)>> \o Split(SubSeq(s, i + 1, Len(s)), c)

\* strings.Join(parts, c)
RECURSIVE JoinWith(_, _)
JoinWith(parts, c) ==
  IF parts = <<>> THEN <<>>
  ELSE IF Len(parts) = 1 THEN parts[1]
  ELSE parts[1] \o <<c>> \o JoinWith(Tail(parts), c)

\* The elements filepath.Clean keeps: empty and "." elements are dropped, a
\* ".." removes the element before it, is dropped at the root of a rooted path
\* and is kept at the start of a relative one.
RECURSIVE CleanElems(_, _, _)
CleanElems(elems, rooted, out) ==
  IF elems = <<>> THEN out
  ELSE LET e == Head(elems) IN
    IF e = <<>> \/ e = <<".">> THEN CleanElems(Tail(elems), rooted, out)
    ELSE IF e = <<".", ".">>
      THEN IF out # <<>> /\ out[Len(out)] # <<".", ".">>
             THEN CleanElems(Tail(elems), rooted, SubSeq(out, 1, Len(out) - 1))
           ELSE IF rooted THEN CleanElems(Tail(elems), rooted, out)
           ELSE CleanElems(Tail(elems), rooted, Append(out, e))
    ELSE CleanElems(Tail(elems), rooted, Append(out, e))

\* filepath.Clean(path)
Clean(path) ==
  IF path = <<>> THEN <<".">>
  ELSE LET rooted == path[1] = Sep
           kept == JoinWith(CleanElems(Split(path, Sep), rooted, <<>>), Sep)
       IN IF rooted THEN <<Sep>> \o kept
          ELSE IF kept = <<>> THEN <<".">> ELSE kept

\* filepath.Join(a, b): the elements from the first non-empty one on are joined
\* with separators and cleaned.
Join(a, b) ==
  IF a # <<>> THEN Clean(a \o <<Sep>> \o b)
  ELSE IF b # <<>> THEN Clean(b)
  ELSE <<>>

\* filepath.Dir(path): everything up to the last separator, cleaned.
Dir(path) == Clean(SubSeq(path, 1, LastIndexOf(path, Sep)))

(***************************************************************************)
(* The file system ArchiveApplier writes to: a function from clean paths   *)
(* to directories and regular files.  "/" and the working directory exist  *)
(* and are writable; the process is not privileged, so the owner's write   *)
(* bit decides whether a directory or a file may be written.               *)
(***************************************************************************)
Mode0755 == 493
Mode0555 == 365
Mode0777 == 511

DirObj(m) == [kind |-> "dir", mode |-> m, content |-> <<>>]
FileObj(c, m) == [kind |-> "file", mode |-> m, content |-> c]

\* mode & 0200
OwnerWritable(mode) == (mode \div 128) % 2 = 1

Exists(fs, p) == p \in DOMAIN fs

\* The directory that holds p; <<>> stands for "/" or the working directory.
ParentOf(p) ==
  LET i == LastIndexOf(p, Sep) IN
    IF i <= 1 THEN <<>> ELSE SubSeq(p, 1, i - 1)

\* Whether a new name may be created in directory par of fs.
CanCreateIn(fs, par) ==
  par = <<>> \/ (Exists(fs, par) /\ fs[par].kind = "dir" /\ OwnerWritable(fs[par].mode))

FsOk(fs, made) == [fs |-> fs, err |-> FALSE, made |-> made]
FsErr(fs, made) == [fs |-> fs, err |-> TRUE, made |-> made]

\* os.MkdirAll(p, perm): an existing directory is success, an existing file an
\* error; otherwise the parent is made first and then p itself.  made is the
\* set of paths created, which stay when a later step fails.
RECURSIVE MkdirAll(_, _, _)
MkdirAll(fs, p, perm) ==
  IF Exists(fs, p)
    THEN IF fs[p].kind = "dir" THEN FsOk(fs, {}) ELSE FsErr(fs, {})
  ELSE LET par == ParentOf(p)
           up == IF par = <<>> THEN FsOk(fs, {}) ELSE MkdirAll(fs, par, perm)
       IN IF up.err THEN up
          ELSE IF CanCreateIn(up.fs, par)
            THEN FsOk((p :> DirObj(perm)) @@ up.fs, up.made \cup {p})
            ELSE FsErr(up.fs, up.made)

\* os.OpenFile(p, O_WRONLY|O_CREATE|O_TRUNC, perm): a directory cannot be
\* opened for writing; an existing file is truncated and keeps its mode; a new
\* file gets perm.
OpenFile(fs, p, perm) ==
  IF Exists(fs, p)
    THEN IF fs[p].kind = "file" /\ OwnerWritable(fs[p].mode)
           THEN FsOk((p :> FileObj(<<>>, fs[p].mode)) @@ fs, {p})
           ELSE FsErr(fs, {})
  ELSE IF CanCreateIn(fs, ParentOf(p))
    THEN FsOk((p :> FileObj(<<>>, perm)) @@ fs, {p})
    ELSE FsErr(fs, {})

\* io.Copy(outFile, reader): the file at p holds the bytes written.
WriteFile(fs, p, c) == (p :> [fs[p] EXCEPT !.content = c]) @@ fs

(***************************************************************************)
(* ArchiveApplier.Apply.                                                   *)
(***************************************************************************)
Entry(n, t, m, d) == [name |-> n, typ |-> t, mode |-> m, data |-> d]

\* The entries an archive of either format may hold: files and directories
\* inside the root, symlinks, and names that leave the root.
CommonEntries ==
  { Entry(<<"f">>, "reg", Mode0644, <<1>>),
    Entry(<<"d", "/", "f">>, "reg", Mode0555, <<2>>),
    Entry(<<"d">>, "dir", Mode0755, <<>>),
    Entry(<<"l">>, "symlink", Mode0777, <<3>>),
    Entry(<<".", ".", "/", "f">>, "reg", Mode0644, <<1>>),
    Entry(<<".", ".", "/", "r", "x">>, "reg", Mode0644, <<1>>),
    Entry(<<".">>, "dir", Mode0755, <<>>) }

\* tar has further entry types (fifo, device, hard link)
TarOnlyEntries == { Entry(<<"p">>, "fifo", Mode0644, <<>>) }

EntriesOf(suffix) ==
  IF suffix = ".zip" THEN CommonEntries ELSE CommonEntries \cup TarOnlyEntries

ArcSuffixes == {".zip", ".tar.gz", ".tgz", ".bin"}

\* (ExtractPath, target) pairs: an explicit root, and roots taken from target.
ArcConfigs ==
  { [extract |-> <<"/", "r", "/", "x">>, target |-> <<"/", "r", "/", "x", "/", "t">>],
    [extract |-> <<>>, target |-> <<"/", "r", "/", "t">>],
    [extract |-> <<>>, target |-> <<"t">>] }

Intact == [kind |-> "none", at |-> 0]
BadOpen == [kind |-> "open", at |-> 0]
BadEntry(k) == [kind |-> "entry", at |-> k]

\* extractPath as Apply determines it
ExtractRoot(extract, target) == IF extract = <<>> THEN Dir(target) ELSE extract

\* The directories from the top down to p, p included.
RECURSIVE Chain(_)
Chain(p) ==
  IF p = <<>> \/ p = <<".">> \/ p = <<Sep>> THEN {}
  ELSE {p} \cup Chain(ParentOf(p))

\* File systems Apply may start from: the root missing, the root present and
\* empty, the root holding a read-only file f from an earlier installation.
InitialFileSystems(root) ==
  LET rootDirs == [p \in Chain(Clean(root)) |-> DirObj(Mode0755)]
      f == Join(root, <<"f">>)
  IN { <<>>, rootDirs, (f :> FileObj(<<2>>, Mode0555)) @@ rootDirs }

ArcInit ==
  /\ arcPc = "apply"
  /\ \E c \in ArcConfigs :
       /\ arcExtractPath = c.extract
       /\ arcTarget = c.target
       /\ arcFS \in InitialFileSystems(ExtractRoot(c.extract, c.target))
  /\ arcSuffix \in ArcSuffixes
  /\ arcArchive \in SeqsUpTo(EntriesOf(arcSuffix), MaxEntries)
  /\ arcBad \in {Intact, BadOpen} \cup {BadEntry(k) : k \in 1..Len(arcArchive)}
  /\ arcDest = <<>>
  /\ arcI = 1
  /\ arcErr = "none"
  /\ arcFS0 = arcFS
  /\ arcWrites = {}
  /\ arcFailedAt = 0
  /\ arcRun = 1

ArcPark ==
  /\ arcPc = "parked"
  /\ arcExtractPath = <<>>
  /\ arcTarget = <<>>
  /\ arcSuffix = ".bin"
  /\ arcArchive = <<>>
  /\ arcBad = Intact
  /\ arcDest = <<>>
  /\ arcI = 1
  /\ arcFS = <<>>
  /\ arcErr = "none"
  /\ arcFS0 = <<>>
  /\ arcWrites = {}
  /\ arcFailedAt = 0
  /\ arcRun = 1

arcConfig ==
  <<arcExtractPath, arcTarget, arcSuffix, arcArchive, arcBad, arcFS0, arcRun>>

\* Apply is called again, with the same archive and target, on the file
\* system the call before it left.
ArcApplyAgain ==
  /\ arcPc = "done"
  /\ arcErr = "nil"
  /\ arcRun < MaxRuns
  /\ arcRun' = arcRun + 1
  /\ arcPc' = "apply"
  /\ arcDest' = <<>>
  /\ arcI' = 1
  /\ arcErr' = "none"
  /\ arcFS0' = arcFS
  /\ arcWrites' = {}
  /\ arcFailedAt' = 0
  /\ UNCHANGED <<arcExtractPath, arcTarget, arcSuffix, arcArchive, arcBad, arcFS>>

ArcReturn(e) ==
  /\ arcPc' = "done"
  /\ arcErr' = e
  /\ arcFailedAt' = IF e = "nil" \/ arcPc = "apply" THEN 0 ELSE arcI

\* Apply: the root, the dispatch on the suffix of source, and the opening of
\* the archive (zip.OpenReader; os.Open and gzip.NewReader).
ArcApply ==
  /\ arcPc = "apply"
  /\ arcDest' = ExtractRoot(arcExtractPath, arcTarget)
  /\ IF arcSuffix = ".zip"
       THEN IF arcBad.kind = "open"
              THEN ArcReturn("error opening zip file")
              ELSE arcPc' = "zip" /\ UNCHANGED <<arcErr, arcFailedAt>>
     ELSE IF arcSuffix \in {".tar.gz", ".tgz"}
       THEN IF arcBad.kind = "open"
              THEN ArcReturn("error creating gzip reader")
              ELSE arcPc' = "tar" /\ UNCHANGED <<arcErr, arcFailedAt>>
     ELSE ArcReturn("unsupported archive format")
  /\ UNCHANGED <<arcConfig, arcI, arcFS, arcWrites>>

\* The zip-slip test both loops apply to path = filepath.Join(dest, name).
LegalPathNoSeparator(path, dest) == HasPrefix(path, Clean(dest))

LegalPath(path, dest) == HasPrefix(path, Clean(dest) \o <<Sep>>)

Wrote(paths, i, op) == {[path |-> p, entry |-> i, op |-> op] : p \in paths}

\* A step that restores the file system Apply started from when it fails.
ArcStepRollingBack(r, e, made) ==
  /\ arcFS' = IF r.err THEN arcFS0 ELSE r.fs
  /\ arcWrites' = arcWrites \cup made
  /\ IF r.err
       THEN ArcReturn(e) /\ arcI' = arcI
       ELSE arcI' = arcI + 1 /\ UNCHANGED <<arcPc, arcErr, arcFailedAt>>

\* The state after one entry is handled: the file system r.fs, the objects
\* made, and either the error e or the next entry.
ArcStep(r, e, made) ==
  /\ arcFS' = r.fs
  /\ arcWrites' = arcWrites \cup made
  /\ IF r.err
       THEN ArcReturn(e) /\ arcI' = arcI
       ELSE arcI' = arcI + 1 /\ UNCHANGED <<arcPc, arcErr, arcFailedAt>>

\* A directory entry: os.MkdirAll(path, mode).
ExtractDir(path, mode, e) ==
  LET r == MkdirAll(arcFS, path, mode) IN
    ArcStep(r, e, Wrote(r.made, arcI, "mkdir"))

\* A file entry: os.MkdirAll(filepath.Dir(path), 0755), os.OpenFile(path, ...,
\* mode), io.Copy.  A damaged entry fails in io.Copy after the file was opened.
ExtractFile(path, mode, data, damaged, eParent, eOpen, eCopy) ==
  LET up == MkdirAll(arcFS, Dir(path), Mode0755)
      dirs == Wrote(up.made, arcI, "mkdir")
  IN IF up.err THEN ArcStep(up, eParent, dirs)
     ELSE LET o == OpenFile(up.fs, path, mode)
              all == dirs \cup Wrote(o.made, arcI, "write")
          IN IF o.err THEN ArcStep(o, eOpen, dirs)
             ELSE IF damaged
               THEN \E n \in 0..Len(data) :
                      ArcStep(FsErr(WriteFile(o.fs, path, Prefix(data, n)), {}),
                              eCopy, all)
               ELSE ArcStep(FsOk(WriteFile(o.fs, path, data), {}), eCopy, all)

\* file.FileInfo().IsDir()
ZipIsDir(file) == file.typ = "dir"

\* extractZip, one iteration of the loop over reader.File.  Only
\* file.FileInfo().IsDir() is tested: every other entry, a symlink included,
\* is extracted as a file with the permission bits of its mode.
ArcZipEntry ==
  /\ arcPc = "zip"
  /\ arcI <= Len(arcArchive)
  /\ LET file == arcArchive[arcI]
         path == Join(arcDest, file.name)
     IN IF ~LegalPath(path, arcDest)
          THEN ArcReturn("illegal file path") /\ UNCHANGED <<arcI, arcFS, arcWrites>>
        ELSE IF ZipIsDir(file)
          THEN ExtractDir(path, file.mode, "error creating directory")
        ELSE ExtractFile(path, file.mode, file.data,
                         arcBad = BadEntry(arcI),
                         "error creating parent directory",
                         "error creating output file",
                         "error extracting file")
  /\ UNCHANGED <<arcConfig, arcDest>>

\* extractZip: the loop is over, return nil.
ArcZipReturn ==
  /\ arcPc = "zip"
  /\ arcI > Len(arcArchive)
  /\ ArcReturn("nil")
  /\ UNCHANGED <<arcConfig, arcDest, arcI, arcFS, arcWrites>>

\* The switch on header.Typeflag: tar.TypeDir, tar.TypeReg, and the default
\* case, which skips the entry.
TarCaseSymlinkAsFile(typeflag) ==
  IF typeflag = "dir" THEN "dir"
  ELSE IF typeflag \in {"reg", "symlink"} THEN "reg"
  ELSE "skip"

TarCase(typeflag) ==
  IF typeflag = "dir" THEN "dir"
  ELSE IF typeflag = "reg" THEN "reg"
  ELSE "skip"

\* extractTarGz, one iteration of the loop: tarReader.Next(), the path test,
\* and the switch on header.Typeflag.
ArcTarEntry ==
  /\ arcPc = "tar"
  /\ arcI <= Len(arcArchive)
  /\ LET header == arcArchive[arcI]
         path == Join(arcDest, header.name)
     IN IF arcBad = BadEntry(arcI)
          THEN ArcReturn("error reading tar") /\ UNCHANGED <<arcI, arcFS, arcWrites>>
        ELSE IF ~LegalPath(path, arcDest)
          THEN ArcReturn("illegal file path") /\ UNCHANGED <<arcI, arcFS, arcWrites>>
        ELSE IF TarCase(header.typ) = "dir"
          THEN ExtractDir(path, header.mode, "error creating directory")
        ELSE IF TarCase(header.typ) = "reg"
          THEN ExtractFile(path, header.mode, header.data, FALSE,
                           "error creating parent directory",
                           "error creating file",
                           "error extracting file")
        ELSE /\ arcI' = arcI + 1
             /\ UNCHANGED <<arcPc, arcErr, arcFailedAt, arcFS, arcWrites>>
  /\ UNCHANGED <<arcConfig, arcDest>>

\* extractTarGz: tarReader.Next() returned io.EOF, return nil.
ArcTarReturn ==
  /\ arcPc = "tar"
  /\ arcI > Len(arcArchive)
  /\ ArcReturn("nil")
  /\ UNCHANGED <<arcConfig, arcDest, arcI, arcFS, arcWrites>>


(***************************************************************************)
(* Claims about ArchiveApplier.Apply (checked under SpecArchive).          *)
(***************************************************************************)
\* The names that make up a clean path.
PathElems(p) == SelectSeq(Split(p, Sep), LAMBDA e : e # <<>> /\ e # <<".">>)

\* p lies below the directory root: root's names, then at least one more,
\* none of them "..".
StrictlyInside(p, root) ==
  LET r == Clean(root)
      re == PathElems(r)
      pe == PathElems(p)
  IN /\ (p[1] = Sep) <=> (r[1] = Sep)
     /\ Len(pe) > Len(re)
     /\ SubSeq(pe, 1, Len(re)) = re
     /\ \A k \in 1..Len(pe) : pe[k] # <<".", ".">>

EntryPath(i) == Join(arcDest, arcArchive[i].name)

IsTar == arcSuffix \in {".tar.gz", ".tgz"}

C6_ZipSymlinkNotMaterialised ==
  (arcPc = "done" /\ arcSuffix = ".zip" /\ arcErr = "nil") =>
     \A i \in 1..Len(arcArchive) :
       (arcArchive[i].typ = "symlink" /\ ~Exists(arcFS0, EntryPath(i))) =>
          ~Exists(arcFS, EntryPath(i))

\* The last regular-file entry with the path of entry i.
LastFileAt(i) ==
  CHOOSE j \in 1..Len(arcArchive) :
    /\ arcArchive[j].typ = "reg" /\ EntryPath(j) = EntryPath(i)
    /\ \A k \in (j + 1)..Len(arcArchive) :
         ~(arcArchive[k].typ = "reg" /\ EntryPath(k) = EntryPath(i))

ExtractedTypes == {"dir", "reg"}

\* C7: when a tar.gz archive is extracted, an entry that is neither a directory
\* nor a regular file (a symlink in particular) is skipped without error: it
\* makes nothing and no error is returned for it; when Apply returns nil the
\* directory and regular-file entries exist at the destination, and nothing
\* else was added but their parent directories.
C7_TarSkipsOtherEntries ==
  IsTar =>
    /\ \A w \in arcWrites : arcArchive[w.entry].typ \in ExtractedTypes
    /\ (arcPc = "done" /\ arcFailedAt >= 1) =>
         \/ arcArchive[arcFailedAt].typ \in ExtractedTypes
         \/ arcErr \in {"error reading tar", "illegal file path"}
    /\ (arcPc = "done" /\ arcErr = "nil") =>
         /\ \A i \in 1..Len(arcArchive) :
              /\ arcArchive[i].typ = "dir" =>
                   Exists(arcFS, EntryPath(i)) /\ arcFS[EntryPath(i)].kind = "dir"
              /\ arcArchive[i].typ = "reg" =>
                   /\ Exists(arcFS, EntryPath(i))
                   /\ arcFS[EntryPath(i)].kind = "file"
                   /\ arcFS[EntryPath(i)].content = arcArchive[LastFileAt(i)].data
         /\ \A p \in DOMAIN arcFS \ DOMAIN arcFS0 :
              \E i \in 1..Len(arcArchive) :
                /\ arcArchive[i].typ \in ExtractedTypes
                /\ p \in Chain(EntryPath(i))
    /\ (/\ arcPc = "done"
        /\ arcBad = Intact
        /\ \A i \in 1..Len(arcArchive) :
             /\ arcArchive[i].typ \notin ExtractedTypes
             /\ LegalPath(EntryPath(i), arcDest))
         => arcErr = "nil" /\ arcFS = arcFS0

C7_Witness ==
  /\ IsTar /\ arcPc = "done" /\ arcErr = "nil"
  /\ Len(arcArchive) = 2
  /\ arcArchive[1].typ = "symlink"
  /\ arcArchive[2].typ = "reg"
  /\ Exists(arcFS, EntryPath(2))
  /\ ~Exists(arcFS, EntryPath(1))

(***************************************************************************)
(* Package version, on strings as sequences of characters.                 *)
(***************************************************************************)
Digits == <<"0", "1", "2", "3", "4", "5", "6", "7", "8", "9">>

IsDigit(c) == \E i \in 1..Len(Digits) : Digits[i] = c

DigitValue(c) == (CHOOSE i \in 1..Len(Digits) : Digits[i] = c) - 1

\* The characters the version strings of the model use, in byte order.
ByteOrder ==
  <<"+", "-", ".">> \o Digits \o
  <<"a", "b", "c", "e", "h", "l", "p", "r", "t", "v", "x">>

Code(c) == CHOOSE i \in 1..Len(ByteOrder) : ByteOrder[i] = c

\* Go's < on strings: byte-wise, a proper prefix is smaller.
RECURSIVE StringLess(_, _)
StringLess(a, b) ==
  IF b = <<>> THEN FALSE
  ELSE IF a = <<>> THEN TRUE
  ELSE IF Head(a) # Head(b) THEN Code(Head(a)) < Code(Head(b))
  ELSE StringLess(Tail(a), Tail(b))

\* strings.TrimPrefix(s, p)
TrimPrefix(s, p) == IF HasPrefix(s, p) THEN SubSeq(s, Len(p) + 1, Len(s)) ELSE s

\* The value of a run of decimal digits.
RECURSIVE DecimalValue(_)
DecimalValue(s) ==
  IF s = <<>> THEN 0
  ELSE 10 * DecimalValue(SubSeq(s, 1, Len(s) - 1)) + DigitValue(s[Len(s)])

\* strconv.Atoi(s): an optional sign and at least one decimal digit (the
\* numbers of the model stay far below the range of int).
Atoi(s) ==
  LET signed == s # <<>> /\ s[1] \in {"+", "-"}
      body == IF signed THEN Tail(s) ELSE s
  IN IF body = <<>> \/ \E i \in 1..Len(body) : ~IsDigit(body[i])
       THEN [ok |-> FALSE, n |-> 0]
       ELSE [ok |-> TRUE,
             n |-> IF signed /\ s[1] = "-" THEN 0 - DecimalValue(body)
                   ELSE DecimalValue(body)]

NoVersion == [ok |-> FALSE]

\* version.Parse(v)
Parse(v) ==
  LET trimmed == TrimPrefix(v, <<"v">>)
      plus == Split(trimmed, "+")
      build == IF Len(plus) > 1 THEN plus[2] ELSE <<>>
      dash == Split(plus[1], "-")
      preRelease == IF Len(dash) > 1 THEN JoinWith(Tail(dash), "-") ELSE <<>>
      parts == Split(dash[1], ".")
  IN IF Len(parts) # 3 THEN NoVersion
     ELSE LET major == Atoi(parts[1])
              minor == Atoi(parts[2])
              patch == Atoi(parts[3])
          IN IF ~major.ok \/ ~minor.ok \/ ~patch.ok THEN NoVersion
             ELSE [ok |-> TRUE, Major |-> major.n, Minor |-> minor.n,
                   Patch |-> patch.n, PreRelease |-> preRelease,
                   Build |-> build]

\* Compare without the pre-release.
CompareNumbers(v, other) ==
  IF v.Major # other.Major THEN (IF v.Major > other.Major THEN 1 ELSE -1)
  ELSE IF v.Minor # other.Minor THEN (IF v.Minor > other.Minor THEN 1 ELSE -1)
  ELSE IF v.Patch # other.Patch THEN (IF v.Patch > other.Patch THEN 1 ELSE -1)
  ELSE 0

\* Compare without the test that sends a pre-release below a release.
CompareReleaseAboveOnly(v, other) ==
  IF v.Major # other.Major THEN (IF v.Major > other.Major THEN 1 ELSE -1)
  ELSE IF v.Minor # other.Minor THEN (IF v.Minor > other.Minor THEN 1 ELSE -1)
  ELSE IF v.Patch # other.Patch THEN (IF v.Patch > other.Patch THEN 1 ELSE -1)
  ELSE IF v.PreRelease = <<>> /\ other.PreRelease # <<>> THEN 1
  ELSE IF v.PreRelease # other.PreRelease
    THEN (IF StringLess(other.PreRelease, v.PreRelease) THEN 1 ELSE -1)
  ELSE 0

\* (*Version).Compare(other)
Compare(v, other) ==
  IF v.Major # other.Major THEN (IF v.Major > other.Major THEN 1 ELSE -1)
  ELSE IF v.Minor # other.Minor THEN (IF v.Minor > other.Minor THEN 1 ELSE -1)
  ELSE IF v.Patch # other.Patch THEN (IF v.Patch > other.Patch THEN 1 ELSE -1)
  ELSE IF v.PreRelease = <<>> /\ other.PreRelease # <<>> THEN 1
  ELSE IF v.PreRelease # <<>> /\ other.PreRelease = <<>> THEN -1
  ELSE IF v.PreRelease # other.PreRelease
    THEN (IF StringLess(other.PreRelease, v.PreRelease) THEN 1 ELSE -1)
  ELSE 0

\* version.CompareStrings(v1, v2)
CompareStrings(v1, v2) ==
  LET ver1 == Parse(v1)
      ver2 == Parse(v2)
  IN IF ~ver1.ok \/ ~ver2.ok THEN [err |-> TRUE, cmp |-> 0]
     ELSE [err |-> FALSE, cmp |-> Compare(ver1, ver2)]

\* The test of IsNewer turned round: v1 is older than v2.
IsOlderStrings(v1, v2) ==
  LET r == CompareStrings(v1, v2) IN
    IF r.err THEN [err |-> TRUE, newer |-> FALSE]
    ELSE [err |-> FALSE, newer |-> r.cmp < 0]

\* version.IsNewer(v1, v2)
IsNewer(v1, v2) ==
  LET r == CompareStrings(v1, v2) IN
    IF r.err THEN [err |-> TRUE, newer |-> FALSE]
    ELSE [err |-> FALSE, newer |-> r.cmp > 0]

(***************************************************************************)
(* HTTPRepository: the manifest releases.json, checksums and releases.     *)
(***************************************************************************)
StrSha256 == <<"s", "h", "a", "2", "5", "6">>
StrSha1 == <<"s", "h", "a", "1">>
StrMd5 == <<"m", "d", "5">>
StrSha512 == <<"s", "h", "a", "5", "1", "2">>
Colon == ":"

Algorithms == {StrSha256, StrSha1, StrMd5}

\* hex.EncodeToString(hasher.Sum(nil)).  The digest functions are taken to be
\* free of collisions: the stand-in is lower-case hex, never empty, and
\* different for different algorithms and for different contents.
Digest(algorithm, content) ==
  (IF algorithm = StrSha256 THEN <<"a">>
   ELSE IF algorithm = StrSha1 THEN <<"b">> ELSE <<"c">>)
  \o [i \in 1..Len(content) |-> Digits[content[i] + 1]]

\* The contents whose digests the manifests and releases of the model name.
DigestedContents == SeqsUpTo(1..MaxByte, 1)

V100 == <<"1", ".", "0", ".", "0">>
V200 == <<"2", ".", "0", ".", "0">>
Vv100 == <<"v", "1", ".", "0", ".", "0">>
Vv110 == <<"v", "1", ".", "1", ".", "0">>
V200rc == <<"2", ".", "0", ".", "0", "-", "r", "c">>
Vx == <<"x">>
V10 == <<"1", ".", "0">>

ManifestVersions == {V100, V200, Vv110, V200rc, Vx, V10}

AssetURL == <<"h", "/", "a">>

HttpRel(v, u, md5, sha1, sha256) ==
  [Version |-> v, URL |-> u, MD5 |-> md5, SHA1 |-> sha1, SHA256 |-> sha256]

HttpReleases ==
  {HttpRel(v, AssetURL, <<>>, <<>>, <<>>) : v \in ManifestVersions} \cup
  {HttpRel(V200, AssetURL, <<>>, <<>>, Digest(StrSha256, <<1>>)),
   HttpRel(V100, AssetURL, Digest(StrMd5, <<1>>), Digest(StrSha1, <<1>>), <<>>),
   HttpRel(V100, <<>>, Digest(StrMd5, <<1>>), <<>>, <<>>),
   HttpRel(Vv110, AssetURL, <<>>, <<>>, <<"x">>)}

\* filepath.Base(path)
RECURSIVE TrimTrailingSep(_)
TrimTrailingSep(path) ==
  IF path # <<>> /\ path[Len(path)] = Sep
    THEN TrimTrailingSep(SubSeq(path, 1, Len(path) - 1))
    ELSE path

Base(path) ==
  IF path = <<>> THEN <<".">>
  ELSE LET stripped == TrimTrailingSep(path)
           last == SubSeq(stripped, LastIndexOf(stripped, Sep) + 1, Len(stripped))
       IN IF last = <<>> THEN <<Sep>> ELSE last

\* The digest chosen, without the name of its algorithm.
selectChecksumBare(httpRel) ==
  IF httpRel.SHA256 # <<>> THEN httpRel.SHA256
  ELSE IF httpRel.SHA1 # <<>> THEN httpRel.SHA1
  ELSE httpRel.MD5

\* selectChecksum with the order of the tests reversed.
selectChecksumMd5First(httpRel) ==
  IF httpRel.MD5 # <<>> THEN StrMd5 \o <<Colon>> \o httpRel.MD5
  ELSE IF httpRel.SHA1 # <<>> THEN StrSha1 \o <<Colon>> \o httpRel.SHA1
  ELSE IF httpRel.SHA256 # <<>> THEN StrSha256 \o <<Colon>> \o httpRel.SHA256
  ELSE <<>>

\* selectChecksum: SHA256 before SHA1 before MD5.
selectChecksum(httpRel) ==
  IF httpRel.SHA256 # <<>> THEN StrSha256 \o <<Colon>> \o httpRel.SHA256
  ELSE IF httpRel.SHA1 # <<>> THEN StrSha1 \o <<Colon>> \o httpRel.SHA1
  ELSE IF httpRel.MD5 # <<>> THEN StrMd5 \o <<Colon>> \o httpRel.MD5
  ELSE <<>>

Release(v, u, name, c) ==
  [Version |-> v, DownloadURL |-> u, FileName |-> name, Checksum |-> c]

NoRelease == [Version |-> <<"n", "i", "l">>]

convertHTTPRelease(httpRel) ==
  Release(httpRel.Version, httpRel.URL, Base(httpRel.URL), selectChecksum(httpRel))

(***************************************************************************)
(* HTTPRepository.GetLatestRelease and HTTPRepository.GetRelease.          *)
(***************************************************************************)
CallLatest == [op |-> "GetLatestRelease", version |-> <<>>]

CallRelease(v) == [op |-> "GetRelease", version |-> v]

HlInit ==
  /\ hlPc = "fetch"
  /\ hlCall = CallLatest
  /\ hlFetchErr \in BOOLEAN
  /\ hlReleases \in SeqsUpTo(HttpReleases, MaxReleases)
  /\ hlI = 1
  /\ hlLatest = 0
  /\ hlErr = "none"
  /\ hlResult = NoRelease

\* GetRelease(version) is called.
HrInit ==
  /\ hlPc = "fetch"
  /\ hlCall \in {CallRelease(v) : v \in {V100, Vv100, Vv110, Vx}}
  /\ hlFetchErr \in BOOLEAN
  /\ hlReleases \in SeqsUpTo(HttpReleases, MaxReleases)
  /\ hlI = 1
  /\ hlLatest = 0
  /\ hlErr = "none"
  /\ hlResult = NoRelease

HlPark ==
  /\ hlPc = "parked"
  /\ hlCall = CallLatest
  /\ hlFetchErr = FALSE
  /\ hlReleases = <<>>
  /\ hlI = 1
  /\ hlLatest = 0
  /\ hlErr = "none"
  /\ hlResult = NoRelease

HlReturn(e, r) == hlPc' = "done" /\ hlErr' = e /\ hlResult' = r

\* h.fetchReleases() and, in GetLatestRelease, the test for an empty manifest.
HlFetch ==
  /\ hlPc = "fetch"
  /\ IF hlFetchErr THEN HlReturn("error fetching releases", NoRelease)
     ELSE IF hlCall.op = "GetRelease" THEN hlPc' = "find" /\ UNCHANGED <<hlErr, hlResult>>
     ELSE IF Len(hlReleases) = 0 THEN HlReturn("no releases found", NoRelease)
     ELSE hlPc' = "scan" /\ UNCHANGED <<hlErr, hlResult>>
  /\ UNCHANGED <<hlFetchErr, hlReleases, hlI, hlLatest, hlCall>>

\* One iteration of the loop over releases; hlLatest = 0 is the nil pointer.
HlScan ==
  /\ hlPc = "scan"
  /\ hlI <= Len(hlReleases)
  /\ hlLatest' =
       IF hlLatest = 0 THEN hlI
       ELSE LET r == IsNewer(hlReleases[hlI].Version, hlReleases[hlLatest].Version)
            IN IF r.err THEN hlLatest
               ELSE IF r.newer THEN hlI ELSE hlLatest
  /\ hlI' = hlI + 1
  /\ UNCHANGED <<hlPc, hlFetchErr, hlReleases, hlErr, hlResult, hlCall>>

\* After the loop.
HlConvert ==
  /\ hlPc = "scan"
  /\ hlI > Len(hlReleases)
  /\ IF hlLatest = 0 THEN HlReturn("no valid release found", NoRelease)
     ELSE HlReturn("nil", convertHTTPRelease(hlReleases[hlLatest]))
  /\ UNCHANGED <<hlFetchErr, hlReleases, hlI, hlLatest, hlCall>>

\* GetRelease if it matched versions without their "v" prefix.
HlFindNormalised ==
  /\ hlPc = "find"
  /\ LET hits == {i \in 1..Len(hlReleases) :
                   TrimPrefix(hlReleases[i].Version, <<"v">>) =
                     TrimPrefix(hlCall.version, <<"v">>)}
     IN IF hits = {} THEN HlReturn("release version not found", NoRelease)
        ELSE HlReturn("nil",
               convertHTTPRelease(hlReleases[CHOOSE i \in hits : \A j \in hits : i <= j]))
  /\ UNCHANGED <<hlFetchErr, hlReleases, hlI, hlLatest, hlCall>>

\* The loop of GetRelease: the first entry whose version is the string asked
\* for, or an error.
HlFind ==
  /\ hlPc = "find"
  /\ LET hits == {i \in 1..Len(hlReleases) : hlReleases[i].Version = hlCall.version}
     IN IF hits = {} THEN HlReturn("release version not found", NoRelease)
        ELSE HlReturn("nil",
               convertHTTPRelease(hlReleases[CHOOSE i \in hits : \A j \in hits : i <= j]))
  /\ UNCHANGED <<hlFetchErr, hlReleases, hlI, hlLatest, hlCall>>

\* ---- Claim of GetLatestRelease ----
Parseable == {i \in 1..Len(hlReleases) : Parse(hlReleases[i].Version).ok}

\* C10: GetLatestRelease skips manifest entries whose version does not parse,
\* wherever they stand (the first one included): the release returned is a
\* maximum among the parseable entries, and a manifest that is empty or has no
\* parseable entry gives an error, not a release.
C10_LatestSkipsUnparseable ==
  (hlPc = "done" /\ ~hlFetchErr) =>
     IF Parseable = {} THEN hlErr # "nil" /\ hlResult = NoRelease
     ELSE /\ hlErr = "nil"
          /\ Parse(hlResult.Version).ok
          /\ \A i \in Parseable :
               Compare(Parse(hlResult.Version), Parse(hlReleases[i].Version)) >= 0

\* C11: for every non-empty manifest whose versions all parse, in any order,
\* GetLatestRelease returns an entry whose version compares greater than or
\* equal to the version of every entry.
C11_LatestIsMaximum ==
  (hlPc = "done" /\ ~hlFetchErr /\ Len(hlReleases) > 0
     /\ Parseable = 1..Len(hlReleases)) =>
       /\ hlErr = "nil"
       /\ \E k \in 1..Len(hlReleases) : hlResult = convertHTTPRelease(hlReleases[k])
       /\ \A i \in 1..Len(hlReleases) :
            CompareStrings(hlResult.Version, hlReleases[i].Version).cmp >= 0

C11_Witness ==
  /\ hlPc = "done" /\ hlErr = "nil"
  /\ Len(hlReleases) = 3
  /\ hlReleases[1].Version = Vv110
  /\ hlReleases[2].Version = V200
  /\ hlReleases[3].Version = V100
  /\ hlResult.Version = V200

(***************************************************************************)
(* HTTPRepository.Download(release, dest).  dlDest is the object at dest,  *)
(* dlDir the state of filepath.Dir(dest).                                  *)
(***************************************************************************)
StatusOK == 200
StatusNotFound == 404

\* http.Client.Do: a transport error, or a status and a body whose stream may
\* break after failAfter bytes (-1: it does not break).
DlResponses ==
  {[doErr |-> TRUE, status |-> 0, body |-> <<>>, failAfter |-> -1]} \cup
  {[doErr |-> FALSE, status |-> StatusNotFound, body |-> <<>>, failAfter |-> -1]} \cup
  {[doErr |-> FALSE, status |-> StatusOK, body |-> b, failAfter |-> n] :
     b \in Contents, n \in -1..MaxContentLen}

DlChecksums ==
  {<<>>} \cup
  {a \o <<Colon>> \o Digest(a, c) : a \in Algorithms, c \in DigestedContents} \cup
  {StrSha512 \o <<Colon>> \o Digest(StrSha256, <<>>),
   StrSha256,
   <<Colon>> \o Digest(StrSha256, <<>>),
   StrSha256 \o <<Colon>>}

DlReleases ==
  {Release(V100, u, Base(u), c) : u \in {<<>>, AssetURL}, c \in DlChecksums}

\* "writable": the directory exists and names can be created and removed in
\* it; "readonly": it exists and they cannot; "uncreatable": it does not exist
\* and os.MkdirAll cannot make it.
DlDirs == {"writable", "readonly", "uncreatable"}

DlDests == {Absent, Directory, File(<<1>>, Mode0644), File(<<1>>, Mode0555)}

DlInit ==
  /\ dlPc = "request"
  /\ dlRelease \in DlReleases
  /\ dlResponse \in DlResponses
  /\ dlResponse.failAfter <= Len(dlResponse.body)
  /\ dlDir \in DlDirs
  /\ dlDest \in DlDests
  /\ (dlDir = "uncreatable" => dlDest = Absent)
  /\ dlErr = "none"
  /\ dlWrote = FALSE

DlPark ==
  /\ dlPc = "parked"
  /\ dlRelease = NoRelease
  /\ dlResponse = [doErr |-> TRUE, status |-> 0, body |-> <<>>, failAfter |-> -1]
  /\ dlDir = "writable"
  /\ dlDest = Absent
  /\ dlErr = "none"
  /\ dlWrote = FALSE

DlReturn(e) == dlPc' = "done" /\ dlErr' = e

\* The URL test, http.NewRequest, httpClient.Do and the status test.
DlRequest ==
  /\ dlPc = "request"
  /\ IF dlRelease.DownloadURL = <<>> THEN DlReturn("no download URL in release")
     ELSE IF dlResponse.doErr THEN DlReturn("error downloading file")
     ELSE IF dlResponse.status # StatusOK THEN DlReturn("download failed with status")
     ELSE dlPc' = "create" /\ dlErr' = dlErr
  /\ UNCHANGED <<dlRelease, dlResponse, dlDir, dlDest, dlWrote>>

\* os.Create(dest) is OpenFile(dest, O_RDWR|O_CREATE|O_TRUNC, 0666): a new
\* file needs a writable directory and gets 0666 less the umask 022, an
\* existing file needs its owner's write bit and is truncated.
CanCreate(dir, f) ==
  \/ f.kind = "absent" /\ dir = "writable"
  \/ f.kind = "file" /\ OwnerWritable(f.mode)

\* os.MkdirAll(destDir, 0755) and os.Create(dest).
DlCreate ==
  /\ dlPc = "create"
  /\ IF dlDir = "uncreatable"
       THEN DlReturn("error creating destination directory")
            /\ UNCHANGED <<dlDest, dlWrote>>
     ELSE IF ~CanCreate(dlDir, dlDest)
       THEN DlReturn("error creating destination file")
            /\ UNCHANGED <<dlDest, dlWrote>>
     ELSE /\ dlDest' = OpenTrunc(dlDest, Mode0644)
          /\ dlWrote' = TRUE
          /\ dlPc' = "copy"
          /\ dlErr' = dlErr
  /\ UNCHANGED <<dlRelease, dlResponse, dlDir>>

\* io.Copy(out, resp.Body) and the test of its error: a stream that breaks
\* has delivered failAfter bytes, which are in the file.
DlCopy ==
  /\ dlPc = "copy"
  /\ IF dlResponse.failAfter >= 0
       THEN /\ dlDest' = [dlDest EXCEPT
                            !.content = Prefix(dlResponse.body, dlResponse.failAfter)]
            /\ DlReturn("error writing to destination")
       ELSE /\ dlDest' = [dlDest EXCEPT !.content = dlResponse.body]
            /\ dlPc' = "verify"
            /\ dlErr' = dlErr
  /\ UNCHANGED <<dlRelease, dlResponse, dlDir, dlWrote>>

\* verifyChecksum without the comparison of the hashes.
verifyChecksumFormatOnly(f, checksum) ==
  LET i == IndexOf(checksum, Colon)
      algorithm == IF i = 0 THEN <<>> ELSE SubSeq(checksum, 1, i - 1)
      expectedHash == IF i = 0 THEN <<>> ELSE SubSeq(checksum, i + 1, Len(checksum))
  IN IF f.kind # "file" THEN "error opening file"
     ELSE IF algorithm = <<>> \/ expectedHash = <<>> THEN "invalid checksum format"
     ELSE IF algorithm \notin Algorithms THEN "unsupported hash algorithm"
     ELSE "nil"

\* h.verifyChecksum(filePath, checksum), f the object at filePath: the value
\* returned, "nil" for no error.
verifyChecksum(f, checksum) ==
  LET i == IndexOf(checksum, Colon)
      algorithm == IF i = 0 THEN <<>> ELSE SubSeq(checksum, 1, i - 1)
      expectedHash == IF i = 0 THEN <<>> ELSE SubSeq(checksum, i + 1, Len(checksum))
  IN IF f.kind # "file" THEN "error opening file"
     ELSE IF algorithm = <<>> \/ expectedHash = <<>> THEN "invalid checksum format"
     ELSE IF algorithm \notin Algorithms THEN "unsupported hash algorithm"
     ELSE IF Digest(algorithm, f.content) # expectedHash THEN "mismatch"
     ELSE "nil"

\* os.Remove(dest); its error is dropped.
RemoveFile(dir, f) == IF dir = "writable" THEN Absent ELSE f

\* The verification of release.Checksum and the return.
DlVerify ==
  /\ dlPc = "verify"
  /\ IF dlRelease.Checksum = <<>>
       THEN DlReturn("nil") /\ dlDest' = dlDest
     ELSE IF verifyChecksum(dlDest, dlRelease.Checksum) # "nil"
       THEN /\ dlDest' = RemoveFile(dlDir, dlDest)
            /\ DlReturn("checksum verification failed")
     ELSE DlReturn("nil") /\ dlDest' = dlDest
  /\ UNCHANGED <<dlRelease, dlResponse, dlDir, dlWrote>>

\* ---- Claim of Download ----
\* C8: whenever Download returns an error, a file it created or wrote during
\* the call (stream failure in the middle of the body, malformed or
\* unsupported checksum string, digest mismatch) does not exist at dest any
\* more.
C8_ErrorLeavesNoFile ==
  (dlPc = "done" /\ dlErr # "nil" /\ dlWrote) => dlDest = Absent

(***************************************************************************)
(* checksum.VerifySHA256.                                                  *)
(***************************************************************************)
UpperHex == <<"A", "B", "C">>
LowerHex == <<"a", "b", "c">>

ToLowerChar(c) ==
  IF \E i \in 1..Len(UpperHex) : UpperHex[i] = c
    THEN LowerHex[CHOOSE i \in 1..Len(UpperHex) : UpperHex[i] = c]
    ELSE c

\* strings.ToLower(s)
ToLower(s) == [i \in 1..Len(s) |-> ToLowerChar(s[i])]

WhiteSpace == {" ", "\t", "\n", "\r"}

\* strings.TrimSpace(s)
RECURSIVE TrimSpace(_)
TrimSpace(s) ==
  IF s # <<>> /\ Head(s) \in WhiteSpace THEN TrimSpace(Tail(s))
  ELSE IF s # <<>> /\ s[Len(s)] \in WhiteSpace
    THEN TrimSpace(SubSeq(s, 1, Len(s) - 1))
  ELSE s

\* VerifySHA256 without strings.TrimSpace.
VerifySHA256Untrimmed(f, expectedChecksum) ==
  IF f.kind # "file" THEN [valid |-> FALSE, err |-> TRUE]
  ELSE [valid |-> ToLower(Digest(StrSha256, f.content)) = ToLower(expectedChecksum),
        err |-> FALSE]

\* VerifySHA256(filePath, expectedChecksum), f the object at filePath: a
\* missing file cannot be opened, a directory cannot be read.
VerifySHA256(f, expectedChecksum) ==
  IF f.kind # "file" THEN [valid |-> FALSE, err |-> TRUE]
  ELSE [valid |-> ToLower(Digest(StrSha256, f.content))
                    = ToLower(TrimSpace(expectedChecksum)),
        err |-> FALSE]

(***************************************************************************)
(* The update command.  The repository and the applier are interfaces: the *)
(* outcome of each of their calls is an input of the step that calls them. *)
(***************************************************************************)
UpVersions == {<<>>, V100, V200, Vx}

UpAppliers == {"binary", "archive", "other"}

UpConfigs == {[CurrentVersion |-> v, Applier |-> a] : v \in UpVersions, a \in UpAppliers}

UpChecksums ==
  {<<>>,
   Digest(StrSha256, <<1>>),
   <<"A", "1", " ">>,
   StrSha256 \o <<Colon>> \o Digest(StrSha256, <<1>>)}

UpReleases ==
  {Release(v, AssetURL, Base(AssetURL), c) : v \in {V100, V200, Vx}, c \in UpChecksums}

\* What a Download that returned nil left at downloadPath.
UpFiles == {Absent} \cup {File(c, Mode0644) : c \in DigestedContents}

UpInit ==
  /\ upPc = "load"
  /\ upCfg \in UpConfigs
  /\ upSaved = upCfg.CurrentVersion
  /\ upLatest = NoRelease
  /\ upFile = Absent
  /\ upCalls = <<>>
  /\ upErr = "none"
  /\ upCfg0 = upCfg

UpPark ==
  /\ upPc = "parked"
  /\ upCfg = [CurrentVersion |-> <<>>, Applier |-> "binary"]
  /\ upSaved = <<>>
  /\ upLatest = NoRelease
  /\ upFile = Absent
  /\ upCalls = <<>>
  /\ upErr = "none"
  /\ upCfg0 = upCfg

UpReturn(e) == upPc' = "done" /\ upErr' = e

Called(stage, ok) == upCalls' = Append(upCalls, [stage |-> stage, ok |-> ok])

\* loadConfig() and createRepository().
UpLoad ==
  /\ upPc = "load"
  /\ \E ok \in BOOLEAN :
       IF ok THEN upPc' = "latest" /\ upErr' = upErr
       ELSE UpReturn("error loading configuration")
  /\ UNCHANGED <<upCfg, upSaved, upLatest, upFile, upCalls, upCfg0>>

\* repo.GetLatestRelease()
UpGetLatest ==
  /\ upPc = "latest"
  /\ \/ UpReturn("error getting latest release") /\ upLatest' = upLatest
     \/ \E r \in UpReleases : upLatest' = r /\ upPc' = "compare" /\ upErr' = upErr
  /\ UNCHANGED <<upCfg, upSaved, upFile, upCalls, upCfg0>>

\* CompareVersions with its arguments exchanged.
CompareVersionsExchanged(current, latest) == IsNewer(current, latest)

\* repo.CompareVersions(current, latest), which both repositories implement
\* as version.IsNewer(latest, current).
CompareVersions(current, latest) == IsNewer(latest, current)

UpCompare ==
  /\ upPc = "compare"
  /\ IF upCfg.CurrentVersion # <<>>
       THEN LET r == CompareVersions(upCfg.CurrentVersion, upLatest.Version) IN
              IF r.err THEN UpReturn("error comparing versions")
              ELSE IF ~r.newer THEN UpReturn("nil")
              ELSE upPc' = "download" /\ upErr' = upErr
       ELSE upPc' = "download" /\ upErr' = upErr
  /\ UNCHANGED <<upCfg, upSaved, upLatest, upFile, upCalls, upCfg0>>

\* os.MkdirAll(cfg.DownloadDir, 0755) and repo.Download(latest, downloadPath).
UpDownload ==
  /\ upPc = "download"
  /\ \/ /\ UpReturn("error creating download directory")
        /\ UNCHANGED <<upFile, upCalls>>
     \/ /\ UpReturn("error downloading release")
        /\ Called("Download", FALSE)
        /\ upFile' = upFile
     \/ \E f \in UpFiles :
          /\ upFile' = f
          /\ Called("Download", TRUE)
          /\ upPc' = "verify"
          /\ upErr' = upErr
  /\ UNCHANGED <<upCfg, upSaved, upLatest, upCfg0>>

\* Whether the command stops after checksum.VerifySHA256 returned r.
VerifyRejectsOnlyErrors(r) == r.err

VerifyRejects(r) == r.err \/ ~r.valid

\* The verification of latest.Checksum, when there is one.
UpVerify ==
  /\ upPc = "verify"
  /\ IF upLatest.Checksum # <<>>
       THEN LET r == VerifySHA256(upFile, upLatest.Checksum) IN
              /\ Called("Verify", ~r.err /\ r.valid)
              /\ IF VerifyRejects(r)
                   THEN UpReturn(IF r.err THEN "error verifying checksum"
                                 ELSE "checksum verification failed")
                   ELSE upPc' = "apply" /\ upErr' = upErr
       ELSE upPc' = "apply" /\ upErr' = upErr /\ upCalls' = upCalls
  /\ UNCHANGED <<upCfg, upSaved, upLatest, upFile, upCfg0>>

\* The choice of the applier and app.Apply(downloadPath, cfg.TargetPath).
UpApply ==
  /\ upPc = "apply"
  /\ IF upCfg.Applier \notin {"binary", "archive"}
       THEN UpReturn("unknown applier type") /\ upCalls' = upCalls
       ELSE \E ok \in BOOLEAN :
              /\ Called("Apply", ok)
              /\ IF ok THEN upPc' = "persist" /\ upErr' = upErr
                 ELSE UpReturn("error applying update")
  /\ UNCHANGED <<upCfg, upSaved, upLatest, upFile, upCfg0>>

\* cfg.CurrentVersion = latest.Version and cfg.Save(cfgFile), whose failure
\* is only a warning.
UpPersist ==
  /\ upPc = "persist"
  /\ upCfg' = [upCfg EXCEPT !.CurrentVersion = upLatest.Version]
  /\ \E ok \in BOOLEAN :
       /\ Called("Save", ok)
       /\ upSaved' = IF ok THEN upLatest.Version ELSE upSaved
  /\ UpReturn("nil")
  /\ UNCHANGED <<upLatest, upFile, upCfg0>>

\* ---- Claim of the update command ----
StagesCalled == [i \in 1..Len(upCalls) |-> upCalls[i].stage]

StagesInOrder ==
  IF upLatest # NoRelease /\ upLatest.Checksum # <<>>
    THEN <<"Download", "Verify", "Apply", "Save">>
    ELSE <<"Download", "Apply", "Save">>

Succeeded(stage) ==
  \E i \in 1..Len(upCalls) : upCalls[i].stage = stage /\ upCalls[i].ok

UpFailed == upPc = "done" /\ upErr # "nil"

\* C9: the update command runs Download, the checksum verification (only when
\* Release.Checksum is not empty), Apply and the saving of current_version in
\* this order, each only if every earlier one succeeded: Apply is never called
\* after a failed download or a failed or mismatching verification, and
\* current_version becomes Release.Version only after Apply returned nil; on
\* any failure it keeps its old value.
C9_StagesInOrderAndGated ==
  /\ HasPrefix(StagesInOrder, StagesCalled)
  /\ \A i \in 1..(Len(upCalls) - 1) : upCalls[i].ok
  /\ (upCfg.CurrentVersion # upCfg0.CurrentVersion \/ upSaved # upCfg0.CurrentVersion) =>
       /\ Succeeded("Apply")
       /\ upCfg.CurrentVersion = upLatest.Version
       /\ upSaved \in {upCfg0.CurrentVersion, upLatest.Version}
  /\ UpFailed =>
       upCfg.CurrentVersion = upCfg0.CurrentVersion /\ upSaved = upCfg0.CurrentVersion

C9_Witness ==
  /\ upPc = "done" /\ upErr = "nil"
  /\ StagesCalled = <<"Download", "Verify", "Apply", "Save">>
  /\ upCfg0.CurrentVersion = V100
  /\ upCfg.CurrentVersion = V200
  /\ upSaved = V200

(***************************************************************************)
(* GitHubRepository: GetLatestRelease, GetRelease and convertGitHubRelease.*)
(***************************************************************************)
\* "https://api.github.com/repos/"
StrApiRepos ==
  <<"h", "t", "t", "p", "s", ":", "/", "/", "a", "p", "i", ".", "g", "i",
    "t", "h", "u", "b", ".", "c", "o", "m", "/", "r", "e", "p", "o", "s",
    "/">>

\* "/releases/latest", "/releases/tags/" and "/releases/assets/"
StrReleasesLatest ==
  <<"/", "r", "e", "l", "e", "a", "s", "e", "s", "/", "l", "a", "t", "e",
    "s", "t">>

StrReleasesTags ==
  <<"/", "r", "e", "l", "e", "a", "s", "e", "s", "/", "t", "a", "g", "s",
    "/">>

StrReleasesAssets ==
  <<"/", "r", "e", "l", "e", "a", "s", "e", "s", "/", "a", "s", "s", "e",
    "t", "s", "/">>

\* fmt.Sprintf("%d", n)
RECURSIVE FormatNat(_)
FormatNat(n) ==
  IF n < 10 THEN <<Digits[n + 1]>>
  ELSE FormatNat(n \div 10) \o <<Digits[(n % 10) + 1]>>

FormatInt(n) == IF n < 0 THEN <<"-">> \o FormatNat(0 - n) ELSE FormatNat(n)

\* An asset as the API sends it; the digest is "" when the API sends none.
JsonAsset(id, name, url, digest) ==
  [id |-> id, name |-> name, browser_download_url |-> url, digest |-> digest]

AssetA == <<"a">>
AssetB == <<"b">>
AssetC == <<"c">>

BrowserURL(name) == <<"h", "/">> \o name

JsonAssets ==
  {JsonAsset(7, AssetA, BrowserURL(AssetA), StrSha256 \o <<Colon>> \o Digest(StrSha256, <<1>>)),
   JsonAsset(12, AssetB, BrowserURL(AssetB), <<>>),
   JsonAsset(0, AssetA, BrowserURL(AssetC), StrMd5 \o <<Colon>> \o Digest(StrMd5, <<1>>)),
   JsonAsset(3, AssetB, BrowserURL(AssetA), StrSha256 \o Digest(StrSha256, <<1>>)),
   JsonAsset(5, AssetC, <<>>, <<>>)}

JsonReleases ==
  {[tag_name |-> t, assets |-> a] :
     t \in {V100, Vv110}, a \in SeqsUpTo(JsonAssets, MaxAssets)}

\* json.Decode into githubRelease: the struct has the fields ID, Name and
\* BrowserDownloadURL of an asset and no field for the digest, which is
\* dropped.
DecodeAsset(j) ==
  [ID |-> j.id, Name |-> j.name, BrowserDownloadURL |-> j.browser_download_url]

DecodeRelease(j) ==
  [TagName |-> j.tag_name,
   Assets |-> [i \in 1..Len(j.assets) |-> DecodeAsset(j.assets[i])]]

GhResponses ==
  {[doErr |-> TRUE, status |-> 0, decodeErr |-> FALSE, json |-> <<>>],
   [doErr |-> FALSE, status |-> StatusNotFound, decodeErr |-> FALSE, json |-> <<>>],
   [doErr |-> FALSE, status |-> StatusOK, decodeErr |-> TRUE, json |-> <<>>]} \cup
  {[doErr |-> FALSE, status |-> StatusOK, decodeErr |-> FALSE, json |-> j] :
     j \in JsonReleases}

GhConfigs ==
  {[Owner |-> o, Repo |-> <<"r">>, Token |-> t, AssetName |-> n] :
     o \in {<<"o">>, <<"p">>}, t \in {<<>>, <<"t">>},
     n \in {<<>>, AssetA, AssetB, AssetC}}

\* The call: GetLatestRelease(), or GetRelease(version).
GhCalls == {CallLatest, CallRelease(V100), CallRelease(Vv110)}

GitHubRelease(v, u, name, c, id) ==
  [Version |-> v, DownloadURL |-> u, FileName |-> name, Checksum |-> c,
   AssetID |-> id]

\* The index of the last asset named name, 0 when there is none.
LastNamed(assets, name) ==
  IF \E i \in 1..Len(assets) : assets[i].Name = name
    THEN CHOOSE i \in 1..Len(assets) :
           assets[i].Name = name /\ \A j \in (i + 1)..Len(assets) : assets[j].Name # name
    ELSE 0

\* The index of the asset the loop over ghRelease.Assets breaks at: the first
\* one named name, 0 when there is none.
FirstNamed(assets, name) ==
  IF \E i \in 1..Len(assets) : assets[i].Name = name
    THEN CHOOSE i \in 1..Len(assets) :
           assets[i].Name = name /\ \A j \in 1..(i - 1) : assets[j].Name # name
    ELSE 0

\* Whether the asset API URL replaces the browser download URL.
UseAssetAPIForAnyToken(token, assetID) == token # <<>>

UseAssetAPI(token, assetID) == token # <<>> /\ assetID # 0

AssetAPIURL(owner, repo, assetID) ==
  StrApiRepos \o owner \o <<Sep>> \o repo \o StrReleasesAssets \o FormatInt(assetID)

\* g.convertGitHubRelease(ghRelease): the error ("nil" for none) and the
\* release.  Checksum is never assigned and keeps the zero value "".
convertGitHubRelease(g, ghRelease) ==
  IF Len(ghRelease.Assets) = 0
    THEN [err |-> "release has no assets", release |-> NoRelease]
  ELSE LET k == IF g.AssetName # <<>> THEN FirstNamed(ghRelease.Assets, g.AssetName)
                ELSE 1
           downloadURL == IF k = 0 THEN <<>> ELSE ghRelease.Assets[k].BrowserDownloadURL
           fileName == IF k = 0 THEN <<>> ELSE ghRelease.Assets[k].Name
           assetID == IF k = 0 THEN 0 ELSE ghRelease.Assets[k].ID
       IN IF g.AssetName # <<>> /\ downloadURL = <<>>
            THEN [err |-> "asset not found in release", release |-> NoRelease]
          ELSE [err |-> "nil",
                release |->
                  GitHubRelease(ghRelease.TagName,
                                IF UseAssetAPI(g.Token, assetID)
                                  THEN AssetAPIURL(g.Owner, g.Repo, assetID)
                                  ELSE downloadURL,
                                fileName, <<>>, assetID)]

\* The URL GetLatestRelease and GetRelease fetch; GetRelease puts a "v" before
\* a version that does not start with one.
GhRequestURL(g, call) ==
  StrApiRepos \o g.Owner \o <<Sep>> \o g.Repo \o
  (IF call.op = "GetLatestRelease" THEN StrReleasesLatest
   ELSE StrReleasesTags \o
        (IF HasPrefix(call.version, <<"v">>) THEN call.version
         ELSE <<"v">> \o call.version))

GhInit ==
  /\ ghPc = "request"
  /\ ghCfg \in GhConfigs
  /\ ghCall \in GhCalls
  /\ ghResponse \in GhResponses
  /\ ghURL = <<>>
  /\ ghErr = "none"
  /\ ghResult = NoRelease

GhPark ==
  /\ ghPc = "parked"
  /\ ghCfg = [Owner |-> <<>>, Repo |-> <<>>, Token |-> <<>>, AssetName |-> <<>>]
  /\ ghCall = CallLatest
  /\ ghResponse = [doErr |-> TRUE, status |-> 0, decodeErr |-> FALSE, json |-> <<>>]
  /\ ghURL = <<>>
  /\ ghErr = "none"
  /\ ghResult = NoRelease

GhReturn(e, r) == ghPc' = "done" /\ ghErr' = e /\ ghResult' = r

\* http.NewRequest, httpClient.Do and the status test.
GhRequest ==
  /\ ghPc = "request"
  /\ ghURL' = GhRequestURL(ghCfg, ghCall)
  /\ IF ghResponse.doErr THEN GhReturn("error fetching release", NoRelease)
     ELSE IF ghResponse.status # StatusOK
       THEN GhReturn("GitHub API returned status", NoRelease)
     ELSE ghPc' = "decode" /\ UNCHANGED <<ghErr, ghResult>>
  /\ UNCHANGED <<ghCfg, ghCall, ghResponse>>

\* json.Decode and g.convertGitHubRelease(&ghRelease).
GhDecode ==
  /\ ghPc = "decode"
  /\ IF ghResponse.decodeErr THEN GhReturn("error decoding response", NoRelease)
     ELSE LET r == convertGitHubRelease(ghCfg, DecodeRelease(ghResponse.json))
          IN GhReturn(r.err, r.release)
  /\ UNCHANGED <<ghCfg, ghCall, ghResponse, ghURL>>

\* ---- Claims of convertGitHubRelease ----
GhReturned == ghPc = "done" /\ ghErr = "nil"

GhSent == ghResponse.json.assets

\* The asset the release is to be made from: the first one, or with a filter
\* the first one of that name.
Chosen ==
  IF ghCfg.AssetName = <<>> THEN 1
  ELSE CHOOSE i \in 1..Len(GhSent) :
         GhSent[i].name = ghCfg.AssetName
         /\ \A j \in 1..(i - 1) : GhSent[j].name # ghCfg.AssetName

Sha256Colon == StrSha256 \o <<Colon>>

\* C12: convertGitHubRelease sets Release.Checksum from the digest of the
\* selected asset: the hex value of a digest "sha256:<hex>", and the empty
\* string, without an error, for an empty digest, a digest without a colon
\* and a digest with another algorithm.
C12_ChecksumFromDigest ==
  GhReturned =>
    LET d == GhSent[Chosen].digest IN
      ghResult.Checksum =
        IF HasPrefix(d, Sha256Colon) THEN SubSeq(d, Len(Sha256Colon) + 1, Len(d))
        ELSE <<>>

\* The decimal text of the asset ids the API sends.
IdText(id) ==
  CASE id = 3 -> <<"3">>
    [] id = 5 -> <<"5">>
    [] id = 7 -> <<"7">>
    [] id = 12 -> <<"1", "2">>
    [] OTHER -> <<"0">>

\* C17: convertGitHubRelease makes DownloadURL the asset API endpoint
\* https://api.github.com/repos/{owner}/{repo}/releases/assets/{id} of the
\* configured owner and repo and the selected asset's id exactly when a token
\* is configured and that id is not zero; in every other case DownloadURL is
\* the selected asset's browser_download_url.  AssetID and FileName are the
\* selected asset's id and name in both cases.
C17_AssetAPIWithTokenAndId ==
  GhReturned =>
    LET a == GhSent[Chosen] IN
      /\ ghResult.DownloadURL =
           IF ghCfg.Token # <<>> /\ a.id # 0
             THEN StrApiRepos \o ghCfg.Owner \o <<"/">> \o ghCfg.Repo
                  \o StrReleasesAssets \o IdText(a.id)
             ELSE a.browser_download_url
      /\ ghResult.AssetID = a.id
      /\ ghResult.FileName = a.name

C17_Witness ==
  /\ GhReturned
  /\ ghCfg.Token # <<>>
  /\ ghCfg.AssetName = AssetB
  /\ Len(GhSent) = 2
  /\ GhSent[1].name = AssetA
  /\ GhSent[2].id = 12
  /\ ghResult.DownloadURL # GhSent[2].browser_download_url
  /\ ghResult.AssetID = 12

\* C18: with no asset-name filter convertGitHubRelease takes the first asset;
\* with a filter it takes the first asset whose name is exactly the filter and
\* uses the URL, the id and the checksum of that asset, never of another; a
\* release without assets and a filter that no asset matches both give an
\* error and no Release.
C18_AssetSelection ==
  (ghPc = "done" /\ ghResponse.status = StatusOK /\ ~ghResponse.doErr
     /\ ~ghResponse.decodeErr) =>
    IF \/ Len(GhSent) = 0
       \/ /\ ghCfg.AssetName # <<>>
          /\ \A i \in 1..Len(GhSent) : GhSent[i].name # ghCfg.AssetName
      THEN ghErr # "nil" /\ ghResult = NoRelease
      ELSE LET a == GhSent[Chosen] IN
             /\ ghErr = "nil"
             /\ ghResult.FileName = a.name
             /\ ghResult.AssetID = a.id
             /\ \/ ghResult.DownloadURL = a.browser_download_url
                \/ /\ ghCfg.Token # <<>>
                   /\ ghResult.DownloadURL = AssetAPIURL(ghCfg.Owner, ghCfg.Repo, a.id)
             /\ ghResult.Checksum =
                  IF HasPrefix(a.digest, Sha256Colon)
                    THEN SubSeq(a.digest, Len(Sha256Colon) + 1, Len(a.digest))
                    ELSE <<>>

\* The selection alone, for assets whose browser_download_url is not empty:
\* the name and the id returned are those of the asset to be taken.
SelectionOfNamedAsset ==
  (ghPc = "done" /\ ghResponse.status = StatusOK /\ ~ghResponse.doErr
     /\ ~ghResponse.decodeErr
     /\ \A i \in 1..Len(GhSent) : GhSent[i].browser_download_url # <<>>) =>
    IF \/ Len(GhSent) = 0
       \/ /\ ghCfg.AssetName # <<>>
          /\ \A i \in 1..Len(GhSent) : GhSent[i].name # ghCfg.AssetName
      THEN ghErr # "nil" /\ ghResult = NoRelease
      ELSE /\ ghErr = "nil"
           /\ ghResult.FileName = GhSent[Chosen].name
           /\ ghResult.AssetID = GhSent[Chosen].id

\* ---- Claim of the releases both repositories return ----
HexChars ==
  {Digits[i] : i \in 1..Len(Digits)} \cup
  {"a", "b", "c", "d", "e", "f", "A", "B", "C", "D", "E", "F"}

IsHex(s) == s # <<>> /\ \A i \in 1..Len(s) : s[i] \in HexChars

\* The part of checksum c after "algorithm:", for the algorithms a that c
\* starts with.
AfterAlgorithm(c) ==
  {SubSeq(c, Len(a) + 2, Len(c)) : a \in {b \in Algorithms : HasPrefix(c, b \o <<Colon>>)}}

ReturnedChecksums ==
  (IF hlPc = "done" /\ hlErr = "nil" THEN {hlResult.Checksum} ELSE {}) \cup
  (IF GhReturned THEN {ghResult.Checksum} ELSE {})

ManifestDigests ==
  {hlReleases[i].SHA256 : i \in 1..Len(hlReleases)} \cup
  {hlReleases[i].SHA1 : i \in 1..Len(hlReleases)} \cup
  {hlReleases[i].MD5 : i \in 1..Len(hlReleases)}

ToUpperChar(c) ==
  IF \E i \in 1..Len(LowerHex) : LowerHex[i] = c
    THEN UpperHex[CHOOSE i \in 1..Len(LowerHex) : LowerHex[i] = c]
    ELSE c

\* strings.ToUpper(s)
ToUpper(s) == [i \in 1..Len(s) |-> ToUpperChar(s[i])]

ReadableFiles == {File(c, Mode0644) : c \in Contents}

\* The checksum strings verifyChecksum is called with.
VcChecksums ==
  {a \o <<Colon>> \o Digest(a, c) : a \in Algorithms, c \in DigestedContents} \cup
  {a \o <<Colon>> \o ToUpper(Digest(a, c)) : a \in Algorithms, c \in DigestedContents} \cup
  {StrSha1 \o <<Colon>> \o Digest(StrSha256, <<1>>),
   StrSha512 \o <<Colon>> \o Digest(StrSha256, <<1>>),
   ToUpper(StrSha256) \o <<Colon>> \o Digest(StrSha256, <<1>>),
   StrSha256 \o <<Colon>> \o Digest(StrSha256, <<1>>) \o <<Colon>>,
   StrSha256 \o Digest(StrSha256, <<1>>),
   <<Colon>> \o Digest(StrSha256, <<1>>),
   StrSha256 \o <<Colon>>,
   <<>>}

VerifyChecksumCalls ==
  {[fn |-> "verifyChecksum", file |-> f, checksum |-> c] :
     f \in ReadableFiles \cup {Absent}, c \in VcChecksums}

\* The expected values VerifySHA256 is called with.
VsExpected ==
  LET h == Digest(StrSha256, <<1>>) IN
    {<<>>, h, ToUpper(h), <<" ">> \o h, h \o <<" ", "\n">>,
     <<"\t">> \o ToUpper(h) \o <<" ">>, <<h[1], " ">> \o Tail(h),
     Digest(StrSha256, <<>>), h \o <<"2">>, Digest(StrSha1, <<1>>),
     Digest(StrSha256, <<2>>), StrSha256 \o <<Colon>> \o h, <<" ">>}

VerifySHA256Calls ==
  {[fn |-> "VerifySHA256", file |-> f, expected |-> x] :
     f \in ReadableFiles \cup {Absent, Directory}, x \in VsExpected}

V199 == <<"1", ".", "9", ".", "9">>
V101 == <<"1", ".", "0", ".", "1">>
V1100 == <<"1", ".", "1", "0", ".", "0">>
V100beta == <<"1", ".", "0", ".", "0", "-", "b", "e", "t", "a">>
V100alpha == <<"1", ".", "0", ".", "0", "-", "a", "l", "p", "h", "a">>
V100build == <<"1", ".", "0", ".", "0", "+", "b">>
V100betaBuild == <<"1", ".", "0", ".", "0", "-", "b", "e", "t", "a", "+", "b">>

\* The version strings CompareVersions is called with.
CvVersions == {<<>>, Vx, V10, V100, Vv110, V200, V200rc, V100build}

\* GitHubRepository.CompareVersions(current, latest)
GitHubCompareVersions(current, latest) == IsNewer(latest, current)

CompareVersionsCalls ==
  {[fn |-> "CompareVersions", variant |-> r, current |-> c, latest |-> l] :
     r \in {"github", "http"}, c \in CvVersions, l \in CvVersions}

\* The versions (*Version).Compare is called with.
CmpVersions ==
  {Parse(s) : s \in {V200, V199, V1100, V101, V100, V100beta, V100alpha,
                     V100build, V100betaBuild, V200rc}}

CompareCalls ==
  {[fn |-> "Compare", v |-> a, other |-> b] : a \in CmpVersions, b \in CmpVersions}

\* The strings version.Parse is called with: a prefix, a core and a suffix of
\* at most MaxSuffixLen characters.
ParsePrefixes == {<<>>, <<"v">>, <<"v", "v">>, <<"-">>, <<"+">>}
ParseCores ==
  {<<>>, <<"1", ".", "0">>, <<"1", ".", "0", ".", "0">>,
   <<"1", ".", "1", "0", ".", "2">>, <<"0", "1", ".", "0", ".", "0">>,
   <<"1", ".", "0", ".", "0", ".", "0">>, <<"1", ".", ".", "0">>,
   <<"1", ".", "x", ".", "0">>}
ParseSuffixes == SeqsUpTo({"-", "+", "a"}, MaxSuffixLen)

ParseCalls ==
  {[fn |-> "Parse", v |-> p \o c \o s] :
     p \in ParsePrefixes, c \in ParseCores, s \in ParseSuffixes}

\* The manifest entries selectChecksum is called with: every combination of
\* digests present and absent.
SelectChecksumCalls ==
  {[fn |-> "selectChecksum", httpRel |-> HttpRel(V100, AssetURL, md5, sha1, sha256)] :
     md5 \in {<<>>, Digest(StrMd5, <<1>>)},
     sha1 \in {<<>>, Digest(StrSha1, <<1>>)},
     sha256 \in {<<>>, Digest(StrSha256, <<1>>), <<"x">>}}

FnCalls ==
  VerifyChecksumCalls \cup VerifySHA256Calls \cup CompareVersionsCalls \cup
  CompareCalls \cup ParseCalls \cup SelectChecksumCalls

FnInit ==
  /\ fnPc = "call"
  /\ fnCall \in FnCalls
  /\ fnResult = "none"

FnPark ==
  /\ fnPc = "parked"
  /\ fnCall = [fn |-> "none"]
  /\ fnResult = "none"

\* h.verifyChecksum(filePath, checksum)
FnVerifyChecksum ==
  /\ fnPc = "call"
  /\ fnCall.fn = "verifyChecksum"
  /\ fnResult' = verifyChecksum(fnCall.file, fnCall.checksum)
  /\ fnPc' = "done"
  /\ UNCHANGED fnCall

\* ---- Claims of verifyChecksum ----
VerifiedReadable ==
  fnPc = "done" /\ fnCall.fn = "verifyChecksum" /\ fnCall.file.kind = "file"

\* C14: in the "algorithm:hexdigest" verification the digest is
\* case-insensitive: verifyChecksum accepts an expected digest that differs
\* from the computed hash only in the case of its letters, for each of
\* sha256, sha1 and md5.
C14_DigestCaseInsensitive ==
  \A a \in Algorithms :
    (/\ VerifiedReadable
     /\ HasPrefix(fnCall.checksum, a \o <<Colon>>)
     /\ ToLower(SubSeq(fnCall.checksum, Len(a) + 2, Len(fnCall.checksum)))
          = ToLower(Digest(a, fnCall.file.content)))
    => fnResult = "nil"

\* The checksum strings that name the hash of content under a supported
\* algorithm.
Names(checksum, content) ==
  \E a \in Algorithms : checksum = a \o <<Colon>> \o Digest(a, content)

\* C15: for a readable file verifyChecksum returns nil exactly when the
\* checksum splits at its first colon into an algorithm among sha256, sha1
\* and md5 and a non-empty digest that equals the hash of the file under that
\* algorithm; without a colon, with an empty algorithm or digest, with another
\* algorithm or with a digest that does not match it returns an error.
C15_NilExactlyOnMatch ==
  VerifiedReadable =>
    (fnResult = "nil" <=> Names(fnCall.checksum, fnCall.file.content))

C15_Witness ==
  /\ VerifiedReadable
  /\ fnCall.file.content = <<1>>
  /\ fnCall.checksum = StrMd5 \o <<Colon>> \o Digest(StrMd5, <<1>>)
  /\ fnResult = "nil"

\* checksum.VerifySHA256(filePath, expectedChecksum)
FnVerifySHA256 ==
  /\ fnPc = "call"
  /\ fnCall.fn = "VerifySHA256"
  /\ fnResult' = VerifySHA256(fnCall.file, fnCall.expected)
  /\ fnPc' = "done"
  /\ UNCHANGED fnCall

\* ---- Claim of VerifySHA256 ----
\* x is h, in any case of its letters, between runs of white space.
IsPadded(x, h) ==
  \E i \in 1..(Len(x) + 1) : \E j \in 0..Len(x) :
    /\ ToLower(SubSeq(x, i, j)) = ToLower(h)
    /\ \A k \in (1..(i - 1)) \cup ((j + 1)..Len(x)) : x[k] \in {" ", "\t", "\n", "\r"}

\* C16: VerifySHA256 returns (true, nil) exactly when the expected value,
\* trimmed of the white space around it and in lower case, is the hex
\* SHA-256 of the file; any other expected value (an empty one, one of another
\* length) gives (false, nil); the error is not nil only when the file cannot
\* be opened or read, and then the boolean is false.
C16_TrueExactlyOnMatch ==
  (fnPc = "done" /\ fnCall.fn = "VerifySHA256") =>
    IF fnCall.file.kind = "file"
      THEN /\ ~fnResult.err
           /\ fnResult.valid <=>
                IsPadded(fnCall.expected, Digest(StrSha256, fnCall.file.content))
      ELSE fnResult.err /\ ~fnResult.valid

C16_Witness ==
  /\ fnPc = "done" /\ fnCall.fn = "VerifySHA256"
  /\ fnCall.file.kind = "file"
  /\ fnCall.expected = <<"\t">> \o ToUpper(Digest(StrSha256, <<1>>)) \o <<" ">>
  /\ fnResult = [valid |-> TRUE, err |-> FALSE]

\* repo.CompareVersions(current, latest) of either repository
FnCompareVersions ==
  /\ fnPc = "call"
  /\ fnCall.fn = "CompareVersions"
  /\ fnResult' = IF fnCall.variant = "github"
                   THEN GitHubCompareVersions(fnCall.current, fnCall.latest)
                   ELSE CompareVersions(fnCall.current, fnCall.latest)
  /\ fnPc' = "done"
  /\ UNCHANGED fnCall

\* v.Compare(other)
FnCompare ==
  /\ fnPc = "call"
  /\ fnCall.fn = "Compare"
  /\ fnResult' = Compare(fnCall.v, fnCall.other)
  /\ fnPc' = "done"
  /\ UNCHANGED fnCall

\* ---- Claim of CompareVersions ----
\* C19: for both repositories CompareVersions(current, latest) returns true
\* exactly when Parse(latest) compares strictly greater than Parse(current),
\* false when they compare equal or latest is older, and an error, with the
\* result false, when either argument does not parse.
C19_TrueIffLatestNewer ==
  (fnPc = "done" /\ fnCall.fn = "CompareVersions") =>
    LET c == Parse(fnCall.current)
        l == Parse(fnCall.latest)
    IN IF c.ok /\ l.ok
         THEN ~fnResult.err /\ (fnResult.newer <=> Compare(l, c) > 0)
         ELSE fnResult.err /\ ~fnResult.newer

C19_Witness ==
  /\ fnPc = "done" /\ fnCall.fn = "CompareVersions"
  /\ fnCall.variant = "github"
  /\ fnCall.current = V200rc
  /\ fnCall.latest = V200
  /\ fnResult = [err |-> FALSE, newer |-> TRUE]

\* ---- Claim of Compare ----
Sign(n) == IF n > 0 THEN 1 ELSE IF n < 0 THEN -1 ELSE 0

\* a comes before b byte by byte: at the first place where they differ a has
\* the smaller byte, or a is a proper prefix of b.
BytesBefore(a, b) ==
  \/ Len(a) < Len(b) /\ SubSeq(b, 1, Len(a)) = a
  \/ \E k \in 1..Len(a) :
       /\ k <= Len(b)
       /\ SubSeq(a, 1, k - 1) = SubSeq(b, 1, k - 1)
       /\ Code(a[k]) < Code(b[k])

DescendingChain == <<V200, V199, V101, V100, V100beta, V100alpha>>

\* C20: Compare orders versions by Major, then Minor, then Patch as numbers;
\* when the three are equal a version with an empty PreRelease is greater than
\* one with a PreRelease, two PreReleases are ordered byte by byte, and Build
\* never counts (versions that differ only in Build compare 0).  In particular
\* 2.0.0 > 1.9.9 > 1.0.1 > 1.0.0 > 1.0.0-beta > 1.0.0-alpha.
C20_CompareOrder ==
  (fnPc = "done" /\ fnCall.fn = "Compare") =>
    LET v == fnCall.v
        o == fnCall.other
    IN /\ fnResult =
            IF v.Major # o.Major THEN Sign(v.Major - o.Major)
            ELSE IF v.Minor # o.Minor THEN Sign(v.Minor - o.Minor)
            ELSE IF v.Patch # o.Patch THEN Sign(v.Patch - o.Patch)
            ELSE IF v.PreRelease = o.PreRelease THEN 0
            ELSE IF v.PreRelease = <<>> THEN 1
            ELSE IF o.PreRelease = <<>> THEN -1
            ELSE IF BytesBefore(v.PreRelease, o.PreRelease) THEN -1 ELSE 1
       /\ \A i \in 1..Len(DescendingChain) : \A j \in 1..Len(DescendingChain) :
            (i < j /\ v = Parse(DescendingChain[i]) /\ o = Parse(DescendingChain[j]))
              => fnResult = 1

C20_Witness ==
  /\ fnPc = "done" /\ fnCall.fn = "Compare"
  /\ fnCall.v = Parse(V100betaBuild)
  /\ fnCall.other = Parse(V100alpha)
  /\ fnResult = 1

\* ---- Claim of the symmetry of Compare ----
\* C21: for parsed versions a and b, Compare(a, a) = 0,
\* Compare(a, b) = -Compare(b, a), and the result is one of -1, 0, 1.
C21_CompareAntisymmetric ==
  (fnPc = "done" /\ fnCall.fn = "Compare") =>
    /\ fnResult \in {-1, 0, 1}
    /\ fnResult = 0 - Compare(fnCall.other, fnCall.v)
    /\ fnCall.v = fnCall.other => fnResult = 0

C21_Witness ==
  /\ fnPc = "done" /\ fnCall.fn = "Compare"
  /\ fnCall.v = Parse(V100beta)
  /\ fnCall.other = Parse(V100)
  /\ fnResult = -1
  /\ Compare(fnCall.other, fnCall.v) = 1

\* version.Parse(v)
FnParse ==
  /\ fnPc = "call"
  /\ fnCall.fn = "Parse"
  /\ fnResult' = Parse(fnCall.v)
  /\ fnPc' = "done"
  /\ UNCHANGED fnCall

\* ---- Claim of Parse ----
\* s without what follows the first c, and what follows the first c.
BeforeFirst(s, c) == IF IndexOf(s, c) = 0 THEN s ELSE SubSeq(s, 1, IndexOf(s, c) - 1)
AfterFirst(s, c) == IF IndexOf(s, c) = 0 THEN <<>> ELSE SubSeq(s, IndexOf(s, c) + 1, Len(s))

IsNumber(s) == s # <<>> /\ \A i \in 1..Len(s) : IsDigit(s[i])

\* The version of the form ["v"]MAJOR.MINOR.PATCH["-"prerelease]["+"build]
\* that s denotes, if it denotes one.
VersionForm(s) ==
  LET t == IF s # <<>> /\ s[1] = "v" THEN Tail(s) ELSE s
      build == AfterFirst(t, "+")
      noBuild == BeforeFirst(t, "+")
      preRelease == AfterFirst(noBuild, "-")
      core == BeforeFirst(noBuild, "-")
      major == BeforeFirst(core, ".")
      rest == AfterFirst(core, ".")
      minor == BeforeFirst(rest, ".")
      patch == AfterFirst(rest, ".")
  IN IF IsNumber(major) /\ IsNumber(minor) /\ IsNumber(patch)
       THEN [ok |-> TRUE, Major |-> DecimalValue(major),
             Minor |-> DecimalValue(minor), Patch |-> DecimalValue(patch),
             PreRelease |-> preRelease, Build |-> build]
       ELSE [ok |-> FALSE]

\* C22: Parse(s) succeeds exactly for strings of the form
\* ["v"]MAJOR.MINOR.PATCH["-"prerelease]["+"build]; on success Major, Minor
\* and Patch are the three integers and are never negative, PreRelease is the
\* whole suffix after the first "-" and Build is the whole suffix after the
\* first "+".
C22_ParseForm ==
  (fnPc = "done" /\ fnCall.fn = "Parse") =>
    /\ fnResult = VersionForm(fnCall.v)
    /\ fnResult.ok => fnResult.Major >= 0 /\ fnResult.Minor >= 0 /\ fnResult.Patch >= 0

\* Parse agrees with the form in everything but Build.
ParseFormButBuild ==
  (fnPc = "done" /\ fnCall.fn = "Parse") =>
    LET f == VersionForm(fnCall.v) IN
      /\ fnResult.ok = f.ok
      /\ fnResult.ok =>
           /\ fnResult.Major = f.Major /\ fnResult.Minor = f.Minor
           /\ fnResult.Patch = f.Patch /\ fnResult.PreRelease = f.PreRelease
           /\ fnResult.Build = BeforeFirst(f.Build, "+")

\* ---- Claim of the archive applier of the update command ----
\* The update command builds its applier with NewArchiveApplier(), which
\* leaves ExtractPath empty, and calls Apply(downloadPath, cfg.TargetPath).
AppliedByUpdateCmd == arcExtractPath = <<>>

\* C23: when the update command uses the archive applier, the configured
\* target_path is the directory the archive is extracted into: an archive
\* entry named f ends up at target_path/f.
C23_TargetPathIsExtractionDir ==
  (arcPc = "done" /\ arcErr = "nil" /\ AppliedByUpdateCmd) =>
    \A i \in 1..Len(arcArchive) :
      arcArchive[i].typ = "reg" =>
        /\ Exists(arcFS, Join(arcTarget, arcArchive[i].name))
        /\ arcFS[Join(arcTarget, arcArchive[i].name)].kind = "file"

\* What Apply does instead: the entries land in the directory that holds
\* target_path.
ExtractedBesideTargetPath ==
  (arcPc = "done" /\ arcErr = "nil" /\ AppliedByUpdateCmd) =>
    \A i \in 1..Len(arcArchive) :
      arcArchive[i].typ = "reg" =>
        /\ Exists(arcFS, Join(Dir(arcTarget), arcArchive[i].name))
        /\ arcFS[Join(Dir(arcTarget), arcArchive[i].name)].kind = "file"

\* ---- Claim of HTTPRepository.GetRelease ----
Matching == {i \in 1..Len(hlReleases) : hlReleases[i].Version = hlCall.version}

\* C24: GetRelease(version) returns the first manifest entry, in array order,
\* whose version is string-equal to the argument, with no normalisation
\* ("v1.0.0" does not match an entry "1.0.0"), and a not-found error when no
\* entry is string-equal.
C24_FirstExactMatch ==
  (hlPc = "done" /\ hlCall.op = "GetRelease" /\ ~hlFetchErr) =>
    /\ Matching = {} => hlErr = "release version not found" /\ hlResult = NoRelease
    /\ \A i \in Matching :
         (\A j \in 1..(i - 1) : j \notin Matching) =>
           hlErr = "nil" /\ hlResult = convertHTTPRelease(hlReleases[i])
    /\ (/\ hlCall.version = Vv100
        /\ \A i \in 1..Len(hlReleases) : hlReleases[i].Version # Vv100)
         => hlErr = "release version not found"

C24_Witness ==
  /\ hlPc = "done" /\ hlCall = CallRelease(V100)
  /\ Len(hlReleases) = 3
  /\ hlReleases[1].Version = V200
  /\ hlReleases[2] = HttpRel(V100, AssetURL, Digest(StrMd5, <<1>>), Digest(StrSha1, <<1>>), <<>>)
  /\ hlReleases[3] = HttpRel(V100, AssetURL, <<>>, <<>>, <<>>)
  /\ hlErr = "nil"
  /\ hlResult.Checksum = StrSha1 \o <<Colon>> \o Digest(StrSha1, <<1>>)

\* A request for "v1.0.0" is not answered by the entry "1.0.0".
C24_WitnessNoNormalisation ==
  /\ hlPc = "done" /\ hlCall = CallRelease(Vv100)
  /\ \E i \in 1..Len(hlReleases) : hlReleases[i].Version = V100
  /\ hlErr = "release version not found"

\* h.selectChecksum(httpRel), its first result
FnSelectChecksum ==
  /\ fnPc = "call"
  /\ fnCall.fn = "selectChecksum"
  /\ fnResult' = selectChecksum(fnCall.httpRel)
  /\ fnPc' = "done"
  /\ UNCHANGED fnCall

\* ---- Claim of selectChecksum ----
\* C25: selectChecksum picks one checksum by the priority sha256 > sha1 > md5:
\* "sha256:" + value when the sha256 field is not empty, else "sha1:" + value
\* when sha1 is not empty, else "md5:" + value when md5 is not empty, and the
\* empty result when no field is set.
C25_ChecksumPriority ==
  (fnPc = "done" /\ fnCall.fn = "selectChecksum") =>
    LET r == fnCall.httpRel IN
      /\ r.SHA256 # <<>> => fnResult = StrSha256 \o <<Colon>> \o r.SHA256
      /\ (r.SHA256 = <<>> /\ r.SHA1 # <<>>) => fnResult = StrSha1 \o <<Colon>> \o r.SHA1
      /\ (r.SHA256 = <<>> /\ r.SHA1 = <<>> /\ r.MD5 # <<>>) =>
           fnResult = StrMd5 \o <<Colon>> \o r.MD5
      /\ (r.SHA256 = <<>> /\ r.SHA1 = <<>> /\ r.MD5 = <<>>) => fnResult = <<>>

C25_Witness ==
  /\ fnPc = "done" /\ fnCall.fn = "selectChecksum"
  /\ fnCall.httpRel.SHA256 = <<>>
  /\ fnCall.httpRel.SHA1 = Digest(StrSha1, <<1>>)
  /\ fnCall.httpRel.MD5 = Digest(StrMd5, <<1>>)
  /\ fnResult = StrSha1 \o <<Colon>> \o Digest(StrSha1, <<1>>)

(***************************************************************************)
(* GitHubRepository.Download.                                              *)
(***************************************************************************)
StrToken == <<"t", "o", "k", "e", "n", " ">>

\* The releases Download is given: what convertGitHubRelease builds (the
\* browser URL, or the asset API URL of asset 7) and what a caller may build.
GdReleases ==
  {GitHubRelease(V100, u, AssetA, <<>>, id) :
     u \in {<<>>, BrowserURL(AssetA), AssetAPIURL(<<"o">>, <<"r">>, 7)},
     id \in {0, 7}}

GdTokens == {<<>>, <<"t">>}

NoRequest == [url |-> <<>>, Authorization |-> <<>>, sent |-> FALSE]

GdInit ==
  /\ gdPc = "request"
  /\ gdToken \in GdTokens
  /\ gdRelease \in GdReleases
  /\ gdResponse \in DlResponses
  /\ gdResponse.failAfter <= Len(gdResponse.body)
  /\ gdDir \in DlDirs
  /\ gdDest \in DlDests
  /\ (gdDir = "uncreatable" => gdDest = Absent)
  /\ gdDest0 = gdDest
  /\ gdSent = NoRequest
  /\ gdErr = "none"

GdPark ==
  /\ gdPc = "parked"
  /\ gdToken = <<>>
  /\ gdRelease = NoRelease
  /\ gdResponse = [doErr |-> TRUE, status |-> 0, body |-> <<>>, failAfter |-> -1]
  /\ gdDir = "writable"
  /\ gdDest = Absent
  /\ gdDest0 = Absent
  /\ gdSent = NoRequest
  /\ gdErr = "none"

GdReturn(e) == gdPc' = "done" /\ gdErr' = e

\* The Authorization header Download sets: "token " + g.Token whenever the
\* token is not empty, whatever the URL.
AuthorizationHeader(token, url) == IF token # <<>> THEN StrToken \o token ELSE <<>>

\* The URL test, http.NewRequest with its headers, httpClient.Do and the
\* status test.
GdRequest ==
  /\ gdPc = "request"
  /\ IF gdRelease.DownloadURL = <<>>
       THEN GdReturn("no download URL in release") /\ gdSent' = gdSent
     ELSE /\ gdSent' = [url |-> gdRelease.DownloadURL,
                        Authorization |->
                          AuthorizationHeader(gdToken, gdRelease.DownloadURL),
                        sent |-> TRUE]
          /\ IF gdResponse.doErr THEN GdReturn("error downloading file")
             ELSE IF gdResponse.status # StatusOK
               THEN GdReturn("download failed with status")
             ELSE gdPc' = "create" /\ gdErr' = gdErr
  /\ UNCHANGED <<gdToken, gdRelease, gdResponse, gdDir, gdDest, gdDest0>>

\* os.MkdirAll(destDir, 0755) and os.Create(dest).
GdCreate ==
  /\ gdPc = "create"
  /\ IF gdDir = "uncreatable"
       THEN GdReturn("error creating destination directory") /\ gdDest' = gdDest
     ELSE IF ~CanCreate(gdDir, gdDest)
       THEN GdReturn("error creating destination file") /\ gdDest' = gdDest
     ELSE /\ gdDest' = OpenTrunc(gdDest, Mode0644)
          /\ gdPc' = "copy"
          /\ gdErr' = gdErr
  /\ UNCHANGED <<gdToken, gdRelease, gdResponse, gdDir, gdDest0, gdSent>>

\* A copy that leaves nothing behind when the stream breaks.
CopiedOrNothing(response) ==
  IF response.failAfter >= 0 THEN <<>> ELSE response.body

\* What io.Copy leaves in the file: the whole body, or the bytes that came
\* before the stream broke.
Copied(response) ==
  IF response.failAfter >= 0 THEN Prefix(response.body, response.failAfter)
  ELSE response.body

\* io.Copy(out, resp.Body), the test of its error, and the return.
GdCopy ==
  /\ gdPc = "copy"
  /\ gdDest' = [gdDest EXCEPT !.content = Copied(gdResponse)]
  /\ IF gdResponse.failAfter >= 0
       THEN GdReturn("error writing to destination")
       ELSE GdReturn("nil")
  /\ UNCHANGED <<gdToken, gdRelease, gdResponse, gdDir, gdDest0, gdSent>>

\* ---- Claims of GitHubRepository.Download ----
\* C26: Download writes the body straight into destPath, with no temporary
\* file and no rename: destPath is truncated as soon as it is created, and
\* when the body stream fails partway Download returns an error and destPath
\* holds the bytes written so far, neither removed nor restored to what it
\* held before.
C26_PartialFileStays ==
  /\ gdPc = "copy" => gdDest.kind = "file" /\ gdDest.content = <<>>
  /\ (gdPc = "done" /\ gdErr = "error writing to destination") =>
       /\ gdResponse.failAfter >= 0
       /\ gdDest.kind = "file"
       /\ gdDest.content = SubSeq(gdResponse.body, 1, gdResponse.failAfter)
  /\ (gdPc = "done" /\ gdErr = "nil") =>
       /\ gdResponse.failAfter < 0
       /\ gdDest.kind = "file"
       /\ gdDest.content = gdResponse.body

C26_Witness ==
  /\ gdPc = "done"
  /\ gdErr = "error writing to destination"
  /\ gdDest0 = File(<<1>>, Mode0644)
  /\ gdResponse.body = <<2, 1>>
  /\ gdResponse.failAfter = 1
  /\ gdDest = File(<<2>>, Mode0644)

\* strings.Contains(s, sub)
Contains(s, sub) ==
  \E i \in 0..(Len(s) - Len(sub)) : SubSeq(s, i + 1, i + Len(sub)) = sub

\* url is https://api.github.com/repos/{owner}/{repo}/releases/assets/{id}
IsAssetAPIEndpoint(url) == HasPrefix(url, StrApiRepos) /\ Contains(url, StrReleasesAssets)

\* C30: the configured token is sent only to the asset API endpoint: Download
\* attaches the Authorization header only when Release.DownloadURL is the
\* api.github.com releases/assets endpoint; a download from a browser download
\* URL carries no credentials.
C30_TokenOnlyToAssetAPI ==
  (gdSent.sent /\ gdSent.Authorization # <<>>) => IsAssetAPIEndpoint(gdSent.url)

\* What Download does: the header goes out exactly when a token is configured.
TokenSentWheneverConfigured ==
  gdSent.sent => (gdSent.Authorization # <<>> <=> gdToken # <<>>)

\* ---- Claim of a failed Apply ----
\* Entry i is one the loop extracts: every entry of a zip archive, the
\* directories and regular files of a tar archive.
Extracted(i) == ~IsTar \/ arcArchive[i].typ \in ExtractedTypes

ExtractedAsDir(i) == arcArchive[i].typ = "dir"

\* The last entry before k that was extracted as a file to the path of entry i.
LastFileBefore(k, i) ==
  CHOOSE j \in 1..(k - 1) :
    /\ Extracted(j) /\ ~ExtractedAsDir(j) /\ EntryPath(j) = EntryPath(i)
    /\ \A l \in (j + 1)..(k - 1) :
         ~(Extracted(l) /\ ~ExtractedAsDir(l) /\ EntryPath(l) = EntryPath(i))

\* Entry i, handled before the failure, is on disk as it was extracted.
OnDiskAsExtracted(k, i) ==
  /\ Exists(arcFS, EntryPath(i))
  /\ IF ExtractedAsDir(i) THEN arcFS[EntryPath(i)].kind = "dir"
     ELSE /\ arcFS[EntryPath(i)].kind = "file"
          /\ arcFS[EntryPath(i)].content = arcArchive[LastFileBefore(k, i)].data

Aborted == arcPc = "done" /\ arcErr # "nil" /\ arcFailedAt >= 1

\* C27 as claimed: when Apply aborts at entry k (path rejected, stream
\* malformed, or a write failure), every entry before k stays on disk exactly
\* as extracted and no entry from k onward is written.
C27_AbortKeepsEarlierEntriesOnly ==
  Aborted =>
    /\ \A i \in 1..(arcFailedAt - 1) : Extracted(i) => OnDiskAsExtracted(arcFailedAt, i)
    /\ \A w \in arcWrites : w.entry < arcFailedAt

\* Entry k itself left something at path p before Apply gave up.
TouchedByFailedEntry(p) ==
  \E w \in arcWrites : w.entry = arcFailedAt /\ w.path = p /\ w.op = "write"

\* C27 amended: when Apply aborts at entry k, nothing is rolled back: every
\* object Apply made is still there, no entry after k is written, and every
\* entry before k is on disk as extracted unless entry k names the same path
\* and had opened it.  Entry k itself is untouched when its path was rejected
\* or its header could not be read; when creating or writing it failed it may
\* leave its parent directories and a truncated or partly written file.
C27_AbortRollsNothingBack ==
  Aborted =>
    /\ \A w \in arcWrites : Exists(arcFS, w.path) /\ w.entry <= arcFailedAt
    /\ arcErr \in {"illegal file path", "error reading tar"} =>
         \A w \in arcWrites : w.entry < arcFailedAt
    /\ \A i \in 1..(arcFailedAt - 1) :
         (Extracted(i) /\ ~TouchedByFailedEntry(EntryPath(i))) =>
            OnDiskAsExtracted(arcFailedAt, i)
    /\ \A p \in DOMAIN arcFS0 : Exists(arcFS, p)

C27_Witness ==
  /\ Aborted
  /\ arcSuffix = ".zip"
  /\ arcErr = "error extracting file"
  /\ arcFailedAt = 2
  /\ arcArchive[1].name = <<"f">>
  /\ arcArchive[2].name = <<"d", "/", "f">>
  /\ arcFS0 = <<>>
  /\ arcFS[EntryPath(1)].content = arcArchive[1].data
  /\ arcFS[EntryPath(2)].content = <<>>

\* ---- Claim of the path test over every root ----
\* C28: Apply rejects an entry as an illegal path only if the entry's cleaned
\* joined path is not strictly inside the extraction root, for every root: an
\* entry such as "f" or "d/f" is accepted and extracted also when the root is
\* relative, in particular when it is "." because the target is a bare file
\* name.
C28_RejectsOnlyOutsideRoot ==
  (arcPc = "done" /\ arcErr = "illegal file path") =>
    ~StrictlyInside(EntryPath(arcFailedAt), arcDest)

\* With an absolute root below "/" the test rejects only what is outside.
RejectsOnlyOutsideAbsoluteRoot ==
  (arcPc = "done" /\ arcErr = "illegal file path" /\ arcDest # <<".">>) =>
    ~StrictlyInside(EntryPath(arcFailedAt), arcDest)

\* ---- Claim of applying an archive again ----
\* C29: extraction is idempotent over an existing installation: applying an
\* archive to a root that already holds the files and directories of an
\* earlier extraction of the same archive returns nil and leaves every file
\* with the archive's content, whatever modes the entries declare (entries
\* without owner write permission included).
C29_ApplyAgainSucceeds ==
  (arcPc = "done" /\ arcRun > 1) =>
    /\ arcErr = "nil"
    /\ \A i \in 1..Len(arcArchive) :
         (Extracted(i) /\ ~ExtractedAsDir(i)) =>
           /\ Exists(arcFS, EntryPath(i))
           /\ arcFS[EntryPath(i)].content =
                arcArchive[LastFileBefore(Len(arcArchive) + 1, i)].data

\* Entries whose files can be written again are extracted again without error.
ApplyAgainSucceedsOverWritableFiles ==
  (/\ arcPc = "done" /\ arcRun > 1
   /\ \A i \in 1..Len(arcArchive) :
        (Extracted(i) /\ ~ExtractedAsDir(i)) => OwnerWritable(arcArchive[i].mode))
    => arcErr = "nil" /\ arcFS = arcFS0

(***************************************************************************)
(* Specifications: one component runs, the others stay parked.             *)
(***************************************************************************)
vars == <<binVars, arcVars, hlVars, dlVars, upVars, ghVars, fnVars, gdVars>>

exceptBin == <<arcVars, hlVars, dlVars, upVars, ghVars, fnVars, gdVars>>
exceptArc == <<binVars, hlVars, dlVars, upVars, ghVars, fnVars, gdVars>>
exceptHl == <<binVars, arcVars, dlVars, upVars, ghVars, fnVars, gdVars>>
exceptDl == <<binVars, arcVars, hlVars, upVars, ghVars, fnVars, gdVars>>
exceptUp == <<binVars, arcVars, hlVars, dlVars, ghVars, fnVars, gdVars>>
exceptGh == <<binVars, arcVars, hlVars, dlVars, upVars, fnVars, gdVars>>
exceptFn == <<binVars, arcVars, hlVars, dlVars, upVars, ghVars, gdVars>>
exceptGd == <<binVars, arcVars, hlVars, dlVars, upVars, ghVars, fnVars>>

InitBinary == BinInit /\ ArcPark /\ HlPark /\ DlPark /\ UpPark /\ GhPark /\ FnPark /\ GdPark

NextBinary ==
  \/ BinOpenSource /\ UNCHANGED exceptBin
  \/ BinCreateTemp /\ UNCHANGED exceptBin
  \/ BinCopy /\ UNCHANGED exceptBin
  \/ BinCopyCheck /\ UNCHANGED exceptBin
  \/ BinRemoveOld /\ UNCHANGED exceptBin
  \/ BinRename /\ UNCHANGED exceptBin
  \/ BinChmod /\ UNCHANGED exceptBin

SpecBinary == InitBinary /\ [][NextBinary]_vars

InitArchive == ArcInit /\ BinPark /\ HlPark /\ DlPark /\ UpPark /\ GhPark /\ FnPark /\ GdPark

NextArchive ==
  \/ ArcApply /\ UNCHANGED exceptArc
  \/ ArcZipEntry /\ UNCHANGED exceptArc
  \/ ArcZipReturn /\ UNCHANGED exceptArc
  \/ ArcTarEntry /\ UNCHANGED exceptArc
  \/ ArcTarReturn /\ UNCHANGED exceptArc
  \/ ArcApplyAgain /\ UNCHANGED exceptArc

SpecArchive == InitArchive /\ [][NextArchive]_vars

InitLatest == HlInit /\ BinPark /\ ArcPark /\ DlPark /\ UpPark /\ GhPark /\ FnPark /\ GdPark

NextLatest ==
  \/ HlFetch /\ UNCHANGED exceptHl
  \/ HlScan /\ UNCHANGED exceptHl
  \/ HlConvert /\ UNCHANGED exceptHl

SpecLatest == InitLatest /\ [][NextLatest]_vars

InitDownload == DlInit /\ BinPark /\ ArcPark /\ HlPark /\ UpPark /\ GhPark /\ FnPark /\ GdPark

NextDownload ==
  \/ DlRequest /\ UNCHANGED exceptDl
  \/ DlCreate /\ UNCHANGED exceptDl
  \/ DlCopy /\ UNCHANGED exceptDl
  \/ DlVerify /\ UNCHANGED exceptDl

SpecDownload == InitDownload /\ [][NextDownload]_vars

InitUpdate == UpInit /\ BinPark /\ ArcPark /\ HlPark /\ DlPark /\ GhPark /\ FnPark /\ GdPark

NextUpdate ==
  \/ UpLoad /\ UNCHANGED exceptUp
  \/ UpGetLatest /\ UNCHANGED exceptUp
  \/ UpCompare /\ UNCHANGED exceptUp
  \/ UpDownload /\ UNCHANGED exceptUp
  \/ UpVerify /\ UNCHANGED exceptUp
  \/ UpApply /\ UNCHANGED exceptUp
  \/ UpPersist /\ UNCHANGED exceptUp

SpecUpdate == InitUpdate /\ [][NextUpdate]_vars

InitGitHub ==
  GhInit /\ BinPark /\ ArcPark /\ HlPark /\ DlPark /\ UpPark /\ FnPark /\ GdPark

NextGitHub ==
  \/ GhRequest /\ UNCHANGED exceptGh
  \/ GhDecode /\ UNCHANGED exceptGh

SpecGitHub == InitGitHub /\ [][NextGitHub]_vars

InitReleases ==
  /\ \/ (HlInit \/ HrInit) /\ GhPark
     \/ HlPark /\ GhInit
  /\ BinPark /\ ArcPark /\ DlPark /\ UpPark /\ FnPark /\ GdPark

NextReleases ==
  \/ HlFetch /\ UNCHANGED exceptHl
  \/ HlScan /\ UNCHANGED exceptHl
  \/ HlConvert /\ UNCHANGED exceptHl
  \/ HlFind /\ UNCHANGED exceptHl
  \/ GhRequest /\ UNCHANGED exceptGh
  \/ GhDecode /\ UNCHANGED exceptGh

SpecReleases == InitReleases /\ [][NextReleases]_vars

InitFunctions ==
  FnInit /\ BinPark /\ ArcPark /\ HlPark /\ DlPark /\ UpPark /\ GhPark /\ GdPark

NextFunctions ==
  \/ FnVerifyChecksum /\ UNCHANGED exceptFn
  \/ FnVerifySHA256 /\ UNCHANGED exceptFn
  \/ FnCompareVersions /\ UNCHANGED exceptFn
  \/ FnCompare /\ UNCHANGED exceptFn
  \/ FnParse /\ UNCHANGED exceptFn
  \/ FnSelectChecksum /\ UNCHANGED exceptFn

SpecFunctions == InitFunctions /\ [][NextFunctions]_vars

InitGitHubDownload ==
  GdInit /\ BinPark /\ ArcPark /\ HlPark /\ DlPark /\ UpPark /\ GhPark /\ FnPark

NextGitHubDownload ==
  \/ GdRequest /\ UNCHANGED exceptGd
  \/ GdCreate /\ UNCHANGED exceptGd
  \/ GdCopy /\ UNCHANGED exceptGd

SpecGitHubDownload == InitGitHubDownload /\ [][NextGitHubDownload]_vars

====
